---- MODULE Spec2Model ----
(***************************************************************************)
(* A model of the browser-driven search-and-capture engine                 *)
(* (UnitedFlightSearcher, src/united.js).                                  *)
(*                                                                         *)
(* Time is discrete; one unit is 1000 ms.  Every piece of JavaScript that  *)
(* runs between two awaits is one atomic action.  The engine reads         *)
(* Date.now() only in the difference Date.now() - startTime, which the     *)
(* model keeps as the local `elapsed`; a waitFor(page, ms) is a state in   *)
(* which the call sits until its `timer` has run down.  Tick lets one unit *)
(* of time pass.  The web site (responses, failed requests, page titles,   *)
(* load failures) is the environment: its choices are drawn with \E.       *)
(*                                                                         *)
(* A URL is a sequence of tokens, and String.prototype.includes is the     *)
(* contiguous-subsequence test Includes.                                   *)
(***************************************************************************)
EXTENDS Integers, Sequences, FiniteSets, TLC

\* ------------------------------------------------------------ constants
\* durations, in units of 1000 ms
TickWait == 1
StabilizationWait == 3
SettleWait == 3
BackoffUnit == 2
RetriggerWait == 2
DefaultMaxWait == 60
DefaultMaxRetries == 3
RetriggerEvery == 10
OkStatus == 200
NavigationTimeout == 60
SubmitWait == 3
SearchTimeout == 120
ErrorStatus == 500

\* ------------------------------------------------------------ bounds
\* requests of the page that end (in a response or in a failure) during one
\* behaviour
MaxRequests == 2
\* engine calls in flight or finished that a behaviour tracks
MaxCalls == 2
\* searches one behaviour of the sequential client starts
MaxSearches == 1

Calls == 1..MaxCalls

\* ------------------------------------------------------------ URLs
FetchFlightsUrl == <<"united.com", "/api/", "flight/", "FetchFlights">>
FlightApiUrl == <<"united.com", "/api/", "flight/", "GetCalendar">>
OtherApiUrl == <<"united.com", "/api/", "auth">>
CdnFetchUrl == <<"cdn.net", "FetchFlights">>
ForeignFlightUrl == <<"cdn.net", "/api/", "flight/", "GetCalendar">>
AssetUrl == <<"united.com", "logo.png">>

AllUrls ==
  {FetchFlightsUrl, FlightApiUrl, OtherApiUrl, CdnFetchUrl, ForeignFlightUrl, AssetUrl}

Includes(url, needle) ==
  \E i \in 1..(Len(url) - Len(needle) + 1) :
    SubSeq(url, i, i + Len(needle) - 1) = needle

\* a variant that takes any "/api/" path of the site
isFetchFlightsAPILoose(url) ==
  \/ Includes(url, <<"FetchFlights">>)
  \/ (Includes(url, <<"united.com">>) /\ Includes(url, <<"/api/">>))

isFetchFlightsAPI(url) ==
  \/ Includes(url, <<"/api/", "flight/", "FetchFlights">>)
  \/ Includes(url, <<"FetchFlights">>)
  \/ (Includes(url, <<"united.com">>) /\ Includes(url, <<"/api/", "flight/">>))

\* ------------------------------------------------------------ values
\* what response.text() yields: a JSON document of `size` characters, an
\* empty string, a whitespace-only string, a string JSON.parse rejects, or a
\* rejected promise
JsonBody(s) == [kind |-> "json", size |-> s]
BadBodies ==
  { [kind |-> "empty", size |-> 0], [kind |-> "blank", size |-> 1],
    [kind |-> "malformed", size |-> 7], [kind |-> "unreadable", size |-> 0] }

NoMeta == [interceptedResponses |-> 0, responseSize |-> 0, apiUrl |-> <<>>, responseId |-> 0]

\* what a call hands to its caller: a value, or an Error object with its
\* message (`cause`) and the failure records attached to it as a property
\* (no Error the engine creates is given one)
Value(type, meta) ==
  [kind |-> "value", type |-> type, cause |-> "", meta |-> meta, failures |-> <<>>]
Error(type, cause) ==
  [kind |-> "error", type |-> type, cause |-> cause, meta |-> NoMeta, failures |-> <<>>]
NoResult == [kind |-> "none", type |-> "", cause |-> "", meta |-> NoMeta, failures |-> <<>>]

\* ------------------------------------------------------------ state
VARIABLES
  interceptedData,  \* this.interceptedData: the capture list
  failedRequests,   \* this.failedRequests: 0 = undefined, else the call whose closure array it aliases
  failedLists,      \* the closure arrays `failedRequests` of setupInterception, per call
  pc,               \* where each call is
  frame,            \* each call's locals
  browser,          \* per call: browsers launched and closed, stealth set-ups, observer installations, page loads issued
  outcome,          \* what each call has handed to its caller
  hist,             \* per call: how the completion detector ended
  pending,          \* response handlers suspended in `await response.text()`
  nextId,           \* responses seen so far + 1 (response ids are arrival ranks)
  started,          \* searches the client has started
  report,           \* what getSummary / getTroubleshootingInfo last returned to the client
  trace,            \* instrumentation of a direct call: load outcomes, backoff waits, arrival times
  http,             \* per POST /api/search request: the handler's position, its timer, the responses sent
  requests          \* the requests the pages paused, with what the request observer did to each

vars ==
  <<interceptedData, failedRequests, failedLists, pc, frame, browser, outcome, hist,
    pending, nextId, started, report, trace, http, requests>>

InitFrame ==
  [ entry |-> "", arg |-> <<>>, timer |-> 0, attempt |-> 0, maxRetries |-> 0, elapsed |-> 0,
    maxWait |-> 0, lastDataCount |-> 0, checkCount |-> 0, result |-> NoResult,
    selector |-> 0 ]

\* ui: what the form driver did on the page, in order
InitBrowser ==
  [launched |-> 0, closed |-> 0, stealth |-> 0, installs |-> 0, loads |-> 0, ui |-> <<>>]

InitHist == [entry |-> "", waitExit |-> "", lenAtExit |-> 0, lastLoad |-> ""]

TraceOff ==
  [ on |-> FALSE, clock |-> 0, loads |-> <<>>, backoffs |-> <<>>, arrivals |-> <<>>,
    maxWait |-> 0, maxRetries |-> 0, waitStart |-> 0, waitEnd |-> 0, checks |-> 0,
    clicks |-> 0, parseFailures |-> 0, windowStart |-> 0, windowCount |-> 0,
    log |-> FALSE, responses |-> <<>>, reads |-> <<>>, failed |-> <<>>, buttons |-> 0 ]
TraceOn == [TraceOff EXCEPT !.on = TRUE]
\* the instrumentation of a page on its own: a log of the responses, body
\* reads and failed requests its observers were called with
TraceLog == [TraceOff EXCEPT !.log = TRUE]

NoReport ==
  [kind |-> "none", summary |-> <<>>, possibleIssues |-> <<>>, recommendations |-> <<>>]

\* a POST /api/search request that has not arrived: pc is the handler's
\* position, timer the time left on its setTimeout while timerLive, awaiting
\* whether the promise of its searchByURL call has yet to be delivered, sent
\* the responses written to `res`
InitHttp == [pc |-> "idle", timer |-> 0, timerLive |-> FALSE, awaiting |-> FALSE, sent |-> <<>>]

\* alias = 0: this.failedRequests is undefined; otherwise it is the closure
\* array of call `alias`, holding `failures`
InitFull(list, tr, arg, alias, failures) ==
  /\ interceptedData = list
  /\ failedRequests = alias
  /\ failedLists = [c \in Calls |-> IF c = alias THEN failures ELSE <<>>]
  /\ pc = [c \in Calls |-> "idle"]
  /\ frame = [c \in Calls |-> [InitFrame EXCEPT !.arg = arg]]
  /\ browser = [c \in Calls |-> InitBrowser]
  /\ outcome = [c \in Calls |-> NoResult]
  /\ hist = [c \in Calls |-> InitHist]
  /\ pending = {}
  /\ nextId = 1
  /\ started = 0
  /\ report = NoReport
  /\ trace = tr
  /\ http = [r \in Calls |-> InitHttp]
  /\ requests = <<>>

InitArgs(list, tr, arg) == InitFull(list, tr, arg, 0, <<>>)

InitWith(list, tr) == InitArgs(list, tr, <<>>)

\* the state after `new UnitedFlightSearcher(options)`, united.js 10-21
Init == InitWith(<<>>, TraceOff)

\* ------------------------------------------------------------ control
WaitingPcs ==
  {"nav_goto_wait", "nav_settle", "nav_backoff", "w_stab", "w_tick", "w_retrig_wait", "s_wait"}
QuietPcs == {"idle", "done"}

Goto(c, p, f, h) ==
  /\ pc' = [pc EXCEPT ![c] = p]
  /\ frame' = [frame EXCEPT ![c] = f]
  /\ hist' = [hist EXCEPT ![c] = h]
  /\ UNCHANGED outcome

\* the call's entry point is a search method
InSearch(f) == f.entry \in {"searchByURL", "searchByFormInteraction"}

\* a variant that hands res to the caller without the finally block
ExitUnclosed(c, res, f, h) ==
  /\ pc' = [pc EXCEPT ![c] = "done"]
  /\ frame' = [frame EXCEPT ![c] = f]
  /\ hist' = [hist EXCEPT ![c] = h]
  /\ outcome' = [outcome EXCEPT ![c] = res]

\* control leaves the running function with `res` (a return value or a thrown
\* error): inside the try block of searchByURL / searchByFormInteraction it
\* reaches the finally block (united.js 64-66, 683-685: browser.close() is
\* awaited, then res is delivered); a function that was called on its own
\* hands res to its caller
Exit(c, res, f, h) ==
  IF InSearch(f)
  THEN Goto(c, "closing", [f EXCEPT !.result = res], h)
  ELSE /\ pc' = [pc EXCEPT ![c] = "done"]
       /\ frame' = [frame EXCEPT ![c] = f]
       /\ hist' = [hist EXCEPT ![c] = h]
       /\ outcome' = [outcome EXCEPT ![c] = res]

\* the page of call c exists and its observers are installed
Observing(c) ==
  /\ browser[c].installs > 0
  /\ browser[c].closed < browser[c].launched

\* the detector's pcs in which time can pass
WaitWaitingPcs == {"w_stab", "w_tick", "w_retrig_wait"}

\* one unit of time passes: only when no call has synchronous code to run
\* and no wait is over.  Every running timer runs down, and Date.now() -
\* startTime grows in every call that is inside waitForSearchResults
Tick ==
  /\ \/ \E c \in Calls : pc[c] \in WaitingPcs
     \/ \E r \in Calls : http[r].timerLive
  /\ \A c \in Calls : pc[c] \in WaitingPcs \cup QuietPcs
  /\ \A c \in Calls : pc[c] \in WaitingPcs => frame[c].timer > 0
  /\ \A r \in Calls : http[r].timerLive => http[r].timer > 0
  /\ http' = [r \in Calls |->
                IF http[r].timerLive THEN [http[r] EXCEPT !.timer = @ - 1] ELSE http[r]]
  /\ frame' = [c \in Calls |->
                 IF pc[c] \in WaitingPcs
                 THEN [frame[c] EXCEPT !.timer = @ - 1,
                                       !.elapsed = IF pc[c] \in WaitWaitingPcs
                                                   THEN @ + 1 ELSE @]
                 ELSE frame[c]]
  /\ trace' = IF trace.on THEN [trace EXCEPT !.clock = @ + 1] ELSE trace
  /\ UNCHANGED <<interceptedData, failedRequests, failedLists, pc, browser, outcome,
                 hist, pending, nextId, started, report, requests>>

Due(c) == frame[c].timer = 0

\* ------------------------------------------------------------ interception
\* setupInterception, united.js 172-175 and 290-291: a fresh closure array
\* and this.failedRequests made an alias of it
setupInterception(c) ==
  /\ failedLists' = [failedLists EXCEPT ![c] = <<>>]
  /\ failedRequests' = c

\* the page has issued a load and its observers are installed
Live(c) == Observing(c) /\ browser[c].loads > 0 /\ pc[c] \notin QuietPcs

\* a variant that reads the body of a qualifying response whatever its status
OnResponseAnyStatus(c, url, status) ==
  /\ Live(c)
  /\ nextId <= MaxRequests
  /\ nextId' = nextId + 1
  /\ pending' =
       IF isFetchFlightsAPI(url)
       THEN pending \cup {[id |-> nextId, call |-> c, url |-> url, status |-> status]}
       ELSE pending
  /\ trace' = IF trace.log
              THEN [trace EXCEPT !.responses =
                      Append(@, [id |-> nextId, url |-> url, status |-> status])]
              ELSE trace
  /\ UNCHANGED <<interceptedData, failedRequests, failedLists, pc, frame, browser,
                 outcome, hist, started, report, http, requests>>

\* page.on("response"), united.js 224-241, up to the first await: a
\* qualifying response with status 200 suspends in response.text(); any other
\* response ends the handler
OnResponse(c, url, status) ==
  /\ Live(c)
  /\ nextId <= MaxRequests
  /\ nextId' = nextId + 1
  /\ pending' =
       IF isFetchFlightsAPI(url) /\ status = OkStatus
       THEN pending \cup {[id |-> nextId, call |-> c, url |-> url, status |-> status]}
       ELSE pending
  /\ trace' = IF trace.log
              THEN [trace EXCEPT !.responses =
                      Append(@, [id |-> nextId, url |-> url, status |-> status])]
              ELSE trace
  /\ UNCHANGED <<interceptedData, failedRequests, failedLists, pc, frame, browser,
                 outcome, hist, started, report, http, requests>>

\* united.js 255-262; the timestamp, headers and payload fields are written
\* here and read by no decision of the engine
interceptedItem(r, body) ==
  [id |-> r.id, url |-> r.url, status |-> r.status, size |-> body.size]

\* a variant that appends whatever text the body read yields
PushCaptureUnparsed(list, r, body) ==
  IF body.kind \in {"unreadable", "empty", "blank"}
  THEN list
  ELSE Append(list, interceptedItem(r, body))

\* a variant that puts the new capture at the head of the list
PushCaptureFront(list, r, body) ==
  IF body.kind # "json" THEN list ELSE <<interceptedItem(r, body)>> \o list

\* the capture list after the handler of response r resumes with `body`
\* (united.js 241-264 and the catch at 270-286)
PushCapture(list, r, body) ==
  IF body.kind = "unreadable" THEN list          \* response.text() rejected: caught
  ELSE IF body.kind \in {"empty", "blank"} THEN list   \* !responseBody || trim() === ""
  ELSE IF body.kind # "json" THEN list           \* JSON.parse threw: caught
  ELSE Append(list, interceptedItem(r, body))

\* page.on("response"), from the resumption of `await response.text()` on.
\* saveResponseToFile touches only the file system and catches its own errors.
OnResponseBody(r, body) ==
  /\ r \in pending
  /\ pending' = pending \ {r}
  /\ interceptedData' = PushCapture(interceptedData, r, body)
  /\ trace' = IF trace.on
              THEN [trace EXCEPT
                      !.arrivals = IF Len(interceptedData') > Len(interceptedData)
                                   THEN Append(@, trace.clock) ELSE @,
                      !.parseFailures = IF body.kind = "malformed" THEN @ + 1 ELSE @]
              ELSE IF trace.log
              THEN [trace EXCEPT !.reads = Append(@, [id |-> r.id, body |-> body])]
              ELSE trace
  /\ UNCHANGED <<failedRequests, failedLists, pc, frame, browser, outcome, hist,
                 nextId, started, report, http, requests>>

\* a variant of the filter that knows the endpoint name only
IsApiPathEndpointOnly(url) == Includes(url, <<"FetchFlights">>)

\* the requestfailed observer's filter, united.js 212
IsApiPath(url) == Includes(url, <<"/api/">>) \/ Includes(url, <<"FetchFlights">>)

\* page.on("requestfailed"), united.js 208-222: a request of the page ended
\* without a response; errText = <<>> stands for a null request.failure()
OnRequestFailed(c, url, errText) ==
  /\ Live(c)
  /\ nextId <= MaxRequests
  /\ nextId' = nextId + 1
  /\ failedLists' =
       IF IsApiPath(url)
       THEN [failedLists EXCEPT ![c] =
               Append(@, [url |-> url,
                          error |-> IF errText = <<>> THEN <<"Unknown error">> ELSE errText])]
       ELSE failedLists
  /\ trace' = IF trace.log
              THEN [trace EXCEPT !.failed = Append(@, [id |-> nextId, url |-> url])]
              ELSE trace
  /\ UNCHANGED <<interceptedData, failedRequests, pc, frame, browser, outcome, hist,
                 pending, started, report, http, requests>>

\* ------------------------------------------------------------ the observers on their own
ObserveStatuses == {OkStatus, 204, 404, ErrorStatus}
ObserveBodies == {JsonBody(100)} \cup BadBodies
ObserveErrors == {<<"net::", "ERR_HTTP2_PROTOCOL_ERROR">>, <<>>}

\* a caller that holds a page calls setupInterception(page) and loads it
CallSetupInterception(c) ==
  /\ pc[c] = "idle"
  /\ browser' = [browser EXCEPT ![c] = [InitBrowser EXCEPT !.launched = 1, !.installs = 1,
                                                           !.loads = 1]]
  /\ setupInterception(c)
  /\ Goto(c, "page", [InitFrame EXCEPT !.entry = "setupInterception"], InitHist)
  /\ UNCHANGED <<interceptedData, pending, nextId, started, report, trace, http, requests>>

NextObserve ==
  \/ CallSetupInterception(1)
  \/ \E url \in AllUrls, st \in ObserveStatuses : OnResponse(1, url, st)
  \/ \E r \in pending, body \in ObserveBodies : OnResponseBody(r, body)
  \/ \E url \in AllUrls, e \in ObserveErrors : OnRequestFailed(1, url, e)

SpecObserve == InitWith(<<>>, TraceLog) /\ [][NextObserve]_vars

\* ------------------------------------------------------------ the request observer
\* the headers the observer sets on an "/api/" request, united.js 181-188
AddedHeaders ==
  [ n \in {"Referer", "Origin", "X-Requested-With", "Accept", "Cache-Control", "Pragma"} |->
      CASE n = "Referer" -> "https://www.united.com/"
        [] n = "Origin" -> "https://www.united.com"
        [] n = "X-Requested-With" -> "XMLHttpRequest"
        [] n = "Accept" -> "application/json, text/plain, */*"
        [] n = "Cache-Control" -> "no-cache"
        [] n = "Pragma" -> "no-cache" ]

\* { ...request.headers(), Referer: ..., Pragma: ... }: the request's own
\* headers, with the added ones put over them
WithAddedHeaders(headers) ==
  [ n \in DOMAIN headers \cup DOMAIN AddedHeaders |->
      IF n \in DOMAIN AddedHeaders THEN AddedHeaders[n] ELSE headers[n] ]

\* a variant that continues no request outside "/api/"
ContinueApiOnly(url, headers) ==
  IF Includes(url, <<"/api/">>)
  THEN [url |-> url, headers |-> headers, continues |-> 1, aborts |-> 0,
        sent |-> WithAddedHeaders(headers)]
  ELSE [url |-> url, headers |-> headers, continues |-> 0, aborts |-> 0, sent |-> headers]

\* what page.on("request") does to a paused request, united.js 176-193:
\* request.continue({ headers }) or request.continue(); `sent` is the
\* headers the request goes out with
Continue(url, headers) ==
  IF Includes(url, <<"/api/">>)
  THEN [url |-> url, headers |-> headers, continues |-> 1, aborts |-> 0,
        sent |-> WithAddedHeaders(headers)]
  ELSE [url |-> url, headers |-> headers, continues |-> 1, aborts |-> 0, sent |-> headers]

\* page.on("request"), united.js 176-205: the page pauses an outbound request
\* and calls the observer, which continues it; the rest of the observer logs
OnRequest(c, url, headers) ==
  /\ Observing(c)
  /\ pc[c] \notin QuietPcs
  /\ Len(requests) < MaxRequests
  /\ requests' = Append(requests, Continue(url, headers))
  /\ UNCHANGED <<interceptedData, failedRequests, failedLists, pc, frame, browser,
                 outcome, hist, pending, nextId, started, report, trace, http>>

\* the headers a request of the page carries before the observer sees it
\* (puppeteer reports their names in lower case)
RequestHeaders ==
  { [n \in {"user-agent"} |-> "Mozilla/5.0"],
    [n \in {"user-agent", "accept"} |-> IF n = "accept" THEN "text/html" ELSE "Mozilla/5.0"],
    [n \in {"accept", "referer"} |-> IF n = "accept" THEN "*/*" ELSE "https://www.google.com/"] }

NextRequest ==
  \/ CallSetupInterception(1)
  \/ \E url \in AllUrls, headers \in RequestHeaders : OnRequest(1, url, headers)

SpecRequest == Init /\ [][NextRequest]_vars

\* ------------------------------------------------------------ parsing
\* a variant of the reducer that prefers the later of two equal sizes
LargerOrLater(prev, current) == IF current.size >= prev.size THEN current ELSE prev

\* the reducer of united.js 475-477
Larger(prev, current) == IF current.size > prev.size THEN current ELSE prev

RECURSIVE ReduceFrom(_, _, _)
ReduceFrom(list, i, prev) ==
  IF i > Len(list) THEN prev ELSE ReduceFrom(list, i + 1, Larger(prev, list[i]))

\* Array.prototype.reduce without an initial value, united.js 475
latestData(list) == ReduceFrom(list, 2, list[1])

\* united.js 458-491; the flights of the result are extractFlightInfo of the
\* selected capture's payload
parseInterceptedData(list) ==
  IF Len(list) = 0
  THEN Value("noData", NoMeta)
  ELSE Value("result",
             [ interceptedResponses |-> Len(list),
               responseSize |-> latestData(list).size,
               apiUrl |-> latestData(list).url,
               responseId |-> latestData(list).id ])

\* ------------------------------------------------------------ completion detector
\* the locals of waitForSearchResults / navigateWithRetry die with the call
PopWait(f) ==
  [f EXCEPT !.elapsed = 0, !.maxWait = 0, !.lastDataCount = 0, !.checkCount = 0,
            !.timer = 0]
PopNav(f) == [f EXCEPT !.attempt = 0, !.maxRetries = 0, !.timer = 0]

\* a detector that counts only what is captured after it started
StartWaitFromCurrent(c, mw, f, h) ==
  Goto(c, "w_loop",
       [f EXCEPT !.elapsed = 0, !.maxWait = mw, !.lastDataCount = Len(interceptedData),
                 !.checkCount = 0],
       h)

\* waitForSearchResults, united.js 308-313: the locals, then the loop head
StartWait(c, mw, f, h) ==
  Goto(c, "w_loop",
       [f EXCEPT !.elapsed = 0, !.maxWait = mw, !.lastDataCount = 0, !.checkCount = 0],
       h)

\* a variant in which running out of time is an error whatever was captured
ReturnFromWaitStrict(c, how, f, h) ==
  LET h2 == [h EXCEPT !.waitExit = how, !.lenAtExit = Len(interceptedData)]
  IN IF how = "timeout"
     THEN Exit(c, Error("Timeout", "maxWait"), PopWait(f), h2)
     ELSE IF InSearch(f)
          THEN Exit(c, parseInterceptedData(interceptedData), PopWait(f), h2)
          ELSE Exit(c, Value("undefined", NoMeta), PopWait(f), h2)

\* waitForSearchResults returns normally (`how` is "stabilized" or "timeout"):
\* searchByURL / searchByFormInteraction go on to `return
\* this.parseInterceptedData(options)` in the same turn of the event loop
\* (united.js 60-63, 680-682)
ReturnFromWait(c, how, f, h) ==
  LET h2 == [h EXCEPT !.waitExit = how, !.lenAtExit = Len(interceptedData)]
  IN IF InSearch(f)
     THEN Exit(c, parseInterceptedData(interceptedData), PopWait(f), h2)
     ELSE Exit(c, Value("undefined", NoMeta), PopWait(f), h2)

\* a variant in which the detector returns normally where it should throw
ThrowFromWaitAsReturn(c, how, err, f, h) == ReturnFromWait(c, how, f, h)

ThrowFromWait(c, how, err, f, h) ==
  Exit(c, err, PopWait(f), [h EXCEPT !.waitExit = how, !.lenAtExit = Len(interceptedData)])

\* united.js 351-355
EmptyCaptureError ==
  Error("EmptyCapture", "No flight data intercepted within timeout period")

\* united.js 335-340: the retrigger check on every 10th tick, then the 1 s wait
AfterGrowthCheck(c, f, h) ==
  IF f.checkCount % RetriggerEvery = 0
  THEN Goto(c, "w_retrig", f, h)
  ELSE Goto(c, "w_tick", [f EXCEPT !.timer = TickWait], h)

\* the instrumentation notes when the detector ended, and when a
\* stabilization window began and the count it began with
TraceWaitEnd(c) ==
  trace' = IF trace.on /\ pc'[c] \in {"done", "closing"}
           THEN [trace EXCEPT !.waitEnd = trace.clock]
           ELSE IF trace.on /\ pc'[c] = "w_stab" /\ pc[c] # "w_stab"
           THEN [trace EXCEPT !.windowStart = trace.clock,
                              !.windowCount = Len(interceptedData)]
           ELSE trace

\* a variant of the loop condition that gives up one unit early
WithinBudgetShort(f) == f.elapsed + 1 < f.maxWait

\* a variant of the loop condition that never ends the loop
WithinBudgetAlways(f) == TRUE

\* united.js 315: Date.now() - startTime < maxWait
WithinBudget(f) == f.elapsed < f.maxWait

\* a variant that returns as soon as it sees the count grow
WaitLoopNoWindow(c) ==
  /\ pc[c] = "w_loop"
  /\ LET f == frame[c]
         g == [f EXCEPT !.checkCount = f.checkCount + 1]
     IN IF WithinBudget(f)
        THEN IF Len(interceptedData) > f.lastDataCount
             THEN ReturnFromWait(c, "stabilized",
                                 [g EXCEPT !.lastDataCount = Len(interceptedData)], hist[c])
             ELSE AfterGrowthCheck(c, g, hist[c])
        ELSE IF Len(interceptedData) = 0
             THEN ThrowFromWait(c, "empty", EmptyCaptureError, f, hist[c])
             ELSE ReturnFromWait(c, "timeout", f, hist[c])
  /\ TraceWaitEnd(c)
  /\ UNCHANGED <<interceptedData, failedRequests, failedLists, browser, pending,
                 nextId, started, report, http, requests>>

\* united.js 315-326 and 343-355: the loop condition; inside the loop the
\* growth check up to `await this.waitFor(page, 3000)`; after the loop the
\* empty-capture error or the normal return
WaitLoop(c) ==
  /\ pc[c] = "w_loop"
  /\ LET f == frame[c]
         g == [f EXCEPT !.checkCount = f.checkCount + 1]
     IN IF WithinBudget(f)
        THEN IF Len(interceptedData) > f.lastDataCount
             THEN Goto(c, "w_stab",
                       [g EXCEPT !.lastDataCount = Len(interceptedData),
                                 !.timer = StabilizationWait],
                       hist[c])
             ELSE AfterGrowthCheck(c, g, hist[c])
        ELSE IF Len(interceptedData) = 0
             THEN ThrowFromWait(c, "empty", EmptyCaptureError, f, hist[c])
             ELSE ReturnFromWait(c, "timeout", f, hist[c])
  /\ TraceWaitEnd(c)
  /\ UNCHANGED <<interceptedData, failedRequests, failedLists, browser, pending,
                 nextId, started, report, http, requests>>

\* a variant that returns after the window whatever the count is
WaitStabilizedUnchecked(c) ==
  /\ pc[c] = "w_stab"
  /\ Due(c)
  /\ ReturnFromWait(c, "stabilized", frame[c], hist[c])
  /\ TraceWaitEnd(c)
  /\ UNCHANGED <<interceptedData, failedRequests, failedLists, browser, pending,
                 nextId, started, report, http, requests>>

\* united.js 328-333: after the stabilization window
WaitStabilized(c) ==
  /\ pc[c] = "w_stab"
  /\ Due(c)
  /\ IF Len(interceptedData) = frame[c].lastDataCount
     THEN ReturnFromWait(c, "stabilized", frame[c], hist[c])
     ELSE AfterGrowthCheck(c, frame[c], hist[c])
  /\ TraceWaitEnd(c)
  /\ UNCHANGED <<interceptedData, failedRequests, failedLists, browser, pending,
                 nextId, started, report, http, requests>>

\* checkPageStateAndRetrigger, united.js 361-416.  page.$ resolves to one
\* element handle or to null: with no error element on the page
\* `errorElements.length` throws a TypeError, which the outer catch swallows
\* before the search button is looked for; with an error element `.length` is
\* undefined and the code goes on to the button.  A found button is clicked
\* once; page.waitForTimeout(2000) follows a click that did not throw, where
\* the installed puppeteer still has that method.
checkPageStateAndRetrigger(c, errorEl, button, clickOk, hasWaitForTimeout) ==
  /\ pc[c] = "w_retrig"
  /\ LET clicked == errorEl /\ button
     IN /\ IF clicked /\ clickOk /\ hasWaitForTimeout
           THEN Goto(c, "w_retrig_wait",
                     [frame[c] EXCEPT !.timer = RetriggerWait], hist[c])
           ELSE Goto(c, "w_tick", [frame[c] EXCEPT !.timer = TickWait], hist[c])
        /\ trace' = IF trace.on
                    THEN [trace EXCEPT !.checks = @ + 1,
                                       !.buttons = IF button THEN @ + 1 ELSE @,
                                       !.clicks = IF clicked THEN @ + 1 ELSE @]
                    ELSE trace
  /\ UNCHANGED <<interceptedData, failedRequests, failedLists, browser, pending,
                 nextId, started, report, http, requests>>

\* united.js 396-411 and 340: the rest of the retrigger check, then the 1 s wait
RetriggerDone(c) ==
  /\ pc[c] = "w_retrig_wait"
  /\ Due(c)
  /\ Goto(c, "w_tick", [frame[c] EXCEPT !.timer = TickWait], hist[c])
  /\ UNCHANGED <<interceptedData, failedRequests, failedLists, browser, pending,
                 nextId, started, trace, report, http, requests>>

\* united.js 340-341: the 1 s wait is over, back to the loop condition
WaitTick(c) ==
  /\ pc[c] = "w_tick"
  /\ Due(c)
  /\ Goto(c, "w_loop", frame[c], hist[c])
  /\ UNCHANGED <<interceptedData, failedRequests, failedLists, browser, pending,
                 nextId, started, trace, report, http, requests>>

\* a waitFor of the detector rejects (united.js 126-130: page.evaluate on a
\* crashed or detached page): the error leaves waitForSearchResults
WaitPageError(c) ==
  /\ pc[c] \in {"w_stab", "w_tick"}
  /\ ThrowFromWait(c, "pageError", Error("PageError", "evaluate"), frame[c], hist[c])
  /\ TraceWaitEnd(c)
  /\ UNCHANGED <<interceptedData, failedRequests, failedLists, browser, pending,
                 nextId, started, report, http, requests>>

\* ------------------------------------------------------------ the detector on its own
\* time budgets handed to waitForSearchResults(page, maxWait), in units of 1000 ms
WaitBudgets == {5, 10}
WaitUrls == {FetchFlightsUrl, OtherApiUrl}
WaitStatuses == {OkStatus, 500}
WaitBodies == {JsonBody(100), [kind |-> "malformed", size |-> 7]}

\* a caller that holds a loaded page with the observers installed calls
\* waitForSearchResults(page, mw)
CallWaitForSearchResults(c, mw) ==
  /\ pc[c] = "idle"
  /\ browser' = [browser EXCEPT ![c] = [InitBrowser EXCEPT !.launched = 1, !.installs = 1,
                                                           !.loads = 1]]
  /\ setupInterception(c)
  /\ StartWait(c, mw, [InitFrame EXCEPT !.entry = "waitForSearchResults"], InitHist)
  /\ trace' = IF trace.on THEN [trace EXCEPT !.maxWait = mw, !.waitStart = trace.clock] ELSE trace
  /\ UNCHANGED <<interceptedData, pending, nextId, started, report, http, requests>>

NextWait ==
  \/ \E mw \in WaitBudgets : CallWaitForSearchResults(1, mw)
  \/ WaitLoop(1)
  \/ WaitStabilized(1)
  \/ \E e, b, k, w \in BOOLEAN : checkPageStateAndRetrigger(1, e, b, k, w)
  \/ RetriggerDone(1)
  \/ WaitTick(1)
  \/ WaitPageError(1)
  \/ \E url \in WaitUrls, st \in WaitStatuses : OnResponse(1, url, st)
  \/ \E r \in pending, body \in WaitBodies : OnResponseBody(r, body)
  \/ Tick

SpecWait == InitWith(<<>>, TraceOn) /\ [][NextWait]_vars

\* the steps the detector takes by itself once they are possible: the
\* synchronous code between two waits runs, and a wait that is over resumes
DetectorProgress(c) ==
  \/ WaitLoop(c)
  \/ WaitStabilized(c)
  \/ \E e, b, k, w \in BOOLEAN : checkPageStateAndRetrigger(c, e, b, k, w)
  \/ RetriggerDone(c)
  \/ WaitTick(c)

\* the detector goes on and time passes; responses arrive as they please
SpecWaitFair ==
  InitWith(<<>>, TraceOn) /\ [][NextWait]_vars /\ WF_vars(DetectorProgress(1)) /\ WF_vars(Tick)

\* ------------------------------------------------------------ navigation
GoodTitle == <<"United", "Airlines">>
EmptyTitle == <<>>
ErrorTitle == <<"Error", "500">>
ServerErrorTitle == <<"Server", "Error">>

\* united.js 150: title && !title.includes("Error")
TitleOk(title) == title # <<>> /\ ~Includes(title, <<"Error">>)

\* the instrumentation notes the outcome of a load attempt and a backoff wait
TraceNav(c, load) ==
  trace' =
    IF trace.on
    THEN [trace EXCEPT
            !.loads = IF load = "" THEN @ ELSE Append(@, load),
            !.backoffs = IF pc'[c] = "nav_backoff" /\ pc[c] # "nav_backoff"
                         THEN Append(@, frame'[c].timer)
                         ELSE @]
    ELSE trace

\* navigateWithRetry, united.js 135-143: attempt 1 up to `await page.goto`
StartNav(c, mr, f, h) ==
  Goto(c, "nav_goto", [f EXCEPT !.attempt = 1, !.maxRetries = mr], h)

\* navigateWithRetry returns normally: searchByURL goes on to
\* waitForSearchResults(page) with the default maxWait (united.js 57-60, 308)
NavReturn(c, f, h) ==
  IF InSearch(f)
  THEN StartWait(c, DefaultMaxWait, PopNav(f), h)
  ELSE Exit(c, Value("undefined", NoMeta), PopNav(f), h)

\* a variant of the catch block with the same backoff after every attempt
NavCatchFlat(c, msg, f, h) ==
  IF f.attempt = f.maxRetries
  THEN Exit(c, Error("Navigation", msg), PopNav(f), h)
  ELSE Goto(c, "nav_backoff", [f EXCEPT !.timer = BackoffUnit], h)

\* a variant of the catch block that gives up one attempt later
NavCatchOneMore(c, msg, f, h) ==
  IF f.attempt = f.maxRetries + 1
  THEN Exit(c, Error("Navigation", msg), PopNav(f), h)
  ELSE Goto(c, "nav_backoff", [f EXCEPT !.timer = BackoffUnit * f.attempt], h)

\* the catch block, united.js 154-165
NavCatch(c, msg, f, h) ==
  IF f.attempt = f.maxRetries
  THEN Exit(c, Error("Navigation", msg), PopNav(f), h)
  ELSE Goto(c, "nav_backoff", [f EXCEPT !.timer = BackoffUnit * f.attempt], h)

\* united.js 136: attempt++ and the loop condition; the next page.goto is
\* issued, or the loop ends and the function returns
NextAttempt(c, f, h) ==
  IF f.attempt + 1 <= f.maxRetries
  THEN /\ Goto(c, "nav_goto", [f EXCEPT !.attempt = f.attempt + 1], h)
       /\ browser' = [browser EXCEPT ![c].loads = @ + 1]
  ELSE /\ NavReturn(c, f, h)
       /\ UNCHANGED browser

\* `await page.goto` settles (united.js 140-146): res is "ok" or the message
\* of the error it rejects with
NavGoto(c, res) ==
  /\ pc[c] = "nav_goto"
  /\ IF res = "ok"
     THEN Goto(c, "nav_settle", [frame[c] EXCEPT !.timer = SettleWait], hist[c])
     ELSE NavCatch(c, res, frame[c], hist[c])
  /\ TraceNav(c, IF res = "ok" THEN "" ELSE res)
  /\ UNCHANGED <<interceptedData, failedRequests, failedLists, browser, pending,
                 nextId, started, report, http, requests>>

\* `await page.goto` stays pending (united.js 140-143): the load that takes
\* longest is the one that puppeteer gives up on after `timeout: this.timeout`
NavGotoSlow(c) ==
  /\ pc[c] = "nav_goto"
  /\ Goto(c, "nav_goto_wait", [frame[c] EXCEPT !.timer = NavigationTimeout], hist[c])
  /\ UNCHANGED <<interceptedData, failedRequests, failedLists, browser, pending,
                 nextId, started, trace, report, http, requests>>

\* the navigation timeout is over: page.goto rejects with a TimeoutError
NavGotoTimeout(c) ==
  /\ pc[c] = "nav_goto_wait"
  /\ Due(c)
  /\ NavCatch(c, "TimeoutError", frame[c], hist[c])
  /\ TraceNav(c, "TimeoutError")
  /\ UNCHANGED <<interceptedData, failedRequests, failedLists, browser, pending,
                 nextId, started, report, http, requests>>

\* the 3 s settle wait is over (united.js 146-153): the title decides
NavSettled(c, title) ==
  /\ pc[c] = "nav_settle"
  /\ Due(c)
  /\ IF TitleOk(title)
     THEN /\ NavReturn(c, frame[c], [hist[c] EXCEPT !.lastLoad = "ok"])
          /\ UNCHANGED browser
     ELSE NextAttempt(c, frame[c], [hist[c] EXCEPT !.lastLoad = "badTitle"])
  /\ TraceNav(c, IF TitleOk(title) THEN "ok" ELSE "badTitle")
  /\ UNCHANGED <<interceptedData, failedRequests, failedLists, pending, nextId,
                 started, report, http, requests>>

\* the backoff wait is over (united.js 164-166)
NavBackoffDone(c) ==
  /\ pc[c] = "nav_backoff"
  /\ Due(c)
  /\ NextAttempt(c, frame[c], hist[c])
  /\ TraceNav(c, "")
  /\ UNCHANGED <<interceptedData, failedRequests, failedLists, pending, nextId,
                 started, report, http, requests>>

\* a page operation of the navigator rejects: the settle wait or page.title()
\* inside the try block (caught like a failed load), or the backoff wait
\* inside the catch block (the error leaves navigateWithRetry as it is)
NavPageError(c) ==
  /\ pc[c] \in {"nav_settle", "nav_backoff"}
  /\ IF pc[c] = "nav_settle"
     THEN NavCatch(c, "evaluate", frame[c], hist[c])
     ELSE Exit(c, Error("PageError", "evaluate"), PopNav(frame[c]), hist[c])
  /\ TraceNav(c, IF pc[c] = "nav_settle" THEN "evaluate" ELSE "")
  /\ UNCHANGED <<interceptedData, failedRequests, failedLists, browser, pending,
                 nextId, started, report, http, requests>>

\* ------------------------------------------------------------ the navigator on its own
NavRetries == {2, 3}
NavTitles == {GoodTitle, EmptyTitle, ErrorTitle, ServerErrorTitle}
NavGotoErrors == {"net::ERR_TIMED_OUT", "net::ERR_ABORTED"}

\* a caller that holds a page calls navigateWithRetry(page, url, mr)
CallNavigateWithRetry(c, mr) ==
  /\ pc[c] = "idle"
  /\ browser' = [browser EXCEPT ![c] = [InitBrowser EXCEPT !.launched = 1, !.loads = 1]]
  /\ StartNav(c, mr, [InitFrame EXCEPT !.entry = "navigateWithRetry"], InitHist)
  /\ trace' = IF trace.on THEN [trace EXCEPT !.maxRetries = mr] ELSE trace
  /\ UNCHANGED <<interceptedData, failedRequests, failedLists, pending, nextId, started,
                 report, http, requests>>

NextNav ==
  \/ \E mr \in NavRetries : CallNavigateWithRetry(1, mr)
  \/ \E res \in {"ok"} \cup NavGotoErrors : NavGoto(1, res)
  \/ \E title \in NavTitles : NavSettled(1, title)
  \/ NavBackoffDone(1)
  \/ NavPageError(1)
  \/ Tick

SpecNav == InitWith(<<>>, TraceOn) /\ [][NextNav]_vars

\* ------------------------------------------------------------ searchByURL
\* searchByURL(searchURL, options), united.js 28-44: up to `await
\* puppeteer.launch`
EnterSearchByURL(c) ==
  /\ pc' = [pc EXCEPT ![c] = "launch"]
  /\ frame' = [frame EXCEPT ![c] = [InitFrame EXCEPT !.entry = "searchByURL"]]
  /\ browser' = [browser EXCEPT ![c] = InitBrowser]
  /\ outcome' = [outcome EXCEPT ![c] = NoResult]
  /\ hist' = [hist EXCEPT ![c] = [InitHist EXCEPT !.entry = "searchByURL"]]

\* a caller invokes searchByURL
CallSearchByURL(c) ==
  /\ pc[c] \in QuietPcs
  /\ started < MaxSearches
  /\ started' = started + 1
  /\ EnterSearchByURL(c)
  /\ report' = NoReport
  /\ UNCHANGED <<interceptedData, failedRequests, failedLists, pending, nextId,
                 trace, http, requests>>

\* a caller invokes searchByFormInteraction(searchParams, options), united.js
\* 644-657: the argument list of puppeteer.launch reads the identifier
\* `proxies`, which the module never declares, so building it throws a
\* ReferenceError before launch is called and the promise of the async
\* function is rejected with it
CallSearchByFormInteraction(c) ==
  /\ pc[c] \in QuietPcs
  /\ started < MaxSearches
  /\ started' = started + 1
  /\ pc' = [pc EXCEPT ![c] = "done"]
  /\ frame' = [frame EXCEPT ![c] = InitFrame]
  /\ browser' = [browser EXCEPT ![c] = InitBrowser]
  /\ outcome' = [outcome EXCEPT ![c] = Error("ReferenceError", "proxies is not defined")]
  /\ hist' = [hist EXCEPT ![c] = [InitHist EXCEPT !.entry = "searchByFormInteraction"]]
  /\ report' = NoReport
  /\ UNCHANGED <<interceptedData, failedRequests, failedLists, pending, nextId,
                 trace, http, requests>>

\* puppeteer.launch settles (united.js 31-44); it is awaited outside the try
\* block, so its error reaches the caller directly
Launch(c, ok) ==
  /\ pc[c] = "launch"
  /\ IF ok
     THEN /\ browser' = [browser EXCEPT ![c].launched = @ + 1]
          /\ Goto(c, "newPage", frame[c], hist[c])
     ELSE /\ UNCHANGED browser
          /\ pc' = [pc EXCEPT ![c] = "done"]
          /\ outcome' = [outcome EXCEPT ![c] = Error("LaunchError", "launch")]
          /\ UNCHANGED <<frame, hist>>
  /\ UNCHANGED <<interceptedData, failedRequests, failedLists, pending, nextId,
                 started, trace, report, http, requests>>

\* a variant that goes from the new page straight to request interception
NewPageUnstealthed(c, ok) ==
  /\ pc[c] = "newPage"
  /\ IF ok
     THEN Goto(c, "intercept", frame[c], hist[c])
     ELSE Exit(c, Error("PageError", "newPage"), frame[c], hist[c])
  /\ UNCHANGED <<interceptedData, failedRequests, failedLists, browser, pending,
                 nextId, started, trace, report, http, requests>>

\* browser.newPage settles (united.js 47)
NewPage(c, ok) ==
  /\ pc[c] = "newPage"
  /\ IF ok
     THEN Goto(c, "stealth", frame[c], hist[c])
     ELSE Exit(c, Error("PageError", "newPage"), frame[c], hist[c])
  /\ UNCHANGED <<interceptedData, failedRequests, failedLists, browser, pending,
                 nextId, started, trace, report, http, requests>>

\* setupAntiDetection settles (united.js 50, 72-121)
Stealth(c, ok) ==
  /\ pc[c] = "stealth"
  /\ IF ok
     THEN /\ Goto(c, "intercept", frame[c], hist[c])
          /\ browser' = [browser EXCEPT ![c].stealth = @ + 1]
     ELSE /\ Exit(c, Error("PageError", "setupAntiDetection"), frame[c], hist[c])
          /\ UNCHANGED browser
  /\ UNCHANGED <<interceptedData, failedRequests, failedLists, pending, nextId,
                 started, trace, report, http, requests>>

\* page.setRequestInterception(true) settles (united.js 53-57); then
\* setupInterception installs the observers and navigateWithRetry issues its
\* first page.goto
Intercept(c, ok) ==
  /\ pc[c] = "intercept"
  /\ IF ok
     THEN /\ setupInterception(c)
          /\ browser' = [browser EXCEPT ![c].installs = @ + 1, ![c].loads = @ + 1]
          /\ StartNav(c, DefaultMaxRetries, frame[c], hist[c])
     ELSE /\ Exit(c, Error("PageError", "setRequestInterception"), frame[c], hist[c])
          /\ UNCHANGED <<browser, failedRequests, failedLists>>
  /\ UNCHANGED <<interceptedData, pending, nextId, started, trace, report, http, requests>>

\* a variant whose finally block hands the result over and leaves the
\* browser as it is
CloseSkipped(c, ok) ==
  /\ pc[c] = "closing"
  /\ pending' = {r \in pending : r.call # c}
  /\ outcome' = [outcome EXCEPT ![c] = frame[c].result]
  /\ pc' = [pc EXCEPT ![c] = "done"]
  /\ frame' = [frame EXCEPT ![c] = InitFrame]
  /\ UNCHANGED <<interceptedData, failedRequests, failedLists, browser, hist, nextId,
                 started, trace, report, http, requests>>

\* the finally block, united.js 64-66: browser.close() settles, then the
\* pending return value or error reaches the caller, or the error of a close
\* that rejected does; response bodies still being read are lost with the
\* browser (their handlers catch the rejection)
Close(c, ok) ==
  /\ pc[c] = "closing"
  /\ browser' = [browser EXCEPT ![c].closed = @ + 1]
  /\ pending' = {r \in pending : r.call # c}
  /\ outcome' = [outcome EXCEPT ![c] =
                   IF ok THEN frame[c].result ELSE Error("PageError", "close")]
  /\ pc' = [pc EXCEPT ![c] = "done"]
  /\ frame' = [frame EXCEPT ![c] = InitFrame]
  /\ UNCHANGED <<interceptedData, failedRequests, failedLists, hist, nextId, started,
                 trace, report, http, requests>>

\* clearData, united.js 862-864
clearData ==
  /\ interceptedData' = <<>>
  /\ UNCHANGED <<failedRequests, failedLists, pc, frame, browser, outcome, hist,
                 pending, nextId, started, trace, report, http, requests>>

\* ------------------------------------------------------------ the form driver
\* the steps of fillSearchFormManually, united.js 695-757: the wait for the
\* form, then one block of page operations per field
FormSteps == <<"form", "origin", "destination", "departDate", "returnDate">>

\* the date blocks run only for the dates the parameters have (united.js 721, 740)
StepWanted(params, i) ==
  CASE FormSteps[i] = "departDate" -> params.departDate
    [] FormSteps[i] = "returnDate" -> params.returnDate
    [] OTHER -> TRUE

\* the first step after step i that the parameters call for; 0 when there is none
NextStep(params, i) ==
  LET later == {j \in (i + 1)..Len(FormSteps) : StepWanted(params, j)}
  IN IF later = {} THEN 0 ELSE CHOOSE j \in later : \A k \in later : j <= k

\* a variant in which every block has a try/catch of its own
FieldErrorSwallowedAlways(step) == TRUE

\* the date blocks have a try/catch of their own, which logs a warning
\* (united.js 724-736, 743-755); an error anywhere else reaches the outer
\* catch, which logs and rethrows it (758-761)
FieldErrorSwallowed(step) == step \in {"departDate", "returnDate"}

\* one step of fillSearchFormManually: the page operations of FormSteps[i]
\* succeed, or one of them rejects
FillStep(c, ok) ==
  /\ pc[c] = "fill"
  /\ LET f == frame[c]
         i == f.selector
         n == NextStep(f.arg, i)
     IN /\ browser' = [browser EXCEPT ![c].ui = Append(@, [step |-> FormSteps[i],
                                                             result |-> IF ok THEN "ok" ELSE "throws"])]
        /\ IF ~ok /\ ~FieldErrorSwallowed(FormSteps[i])
           THEN Exit(c, Error("PageError", FormSteps[i]), [f EXCEPT !.selector = 0], hist[c])
           ELSE IF n = 0
           THEN Exit(c, Value("undefined", NoMeta), [f EXCEPT !.selector = 0], hist[c])
           ELSE Goto(c, "fill", [f EXCEPT !.selector = n], hist[c])
  /\ UNCHANGED <<interceptedData, failedRequests, failedLists, pending, nextId, started,
                 report, trace, http, requests>>

\* the search parameters: the dates are optional, from and to have defaults
FormParams == [departDate : BOOLEAN, returnDate : BOOLEAN]

\* a caller that holds a page with the form on it calls
\* fillSearchFormManually(page, params)
CallFillSearchFormManually(c, params) ==
  /\ pc[c] = "idle"
  /\ browser' = [browser EXCEPT ![c] = [InitBrowser EXCEPT !.launched = 1, !.loads = 1]]
  /\ Goto(c, "fill",
          [InitFrame EXCEPT !.entry = "fillSearchFormManually", !.arg = params,
                            !.selector = 1],
          InitHist)
  /\ UNCHANGED <<interceptedData, failedRequests, failedLists, pending, nextId, started,
                 report, trace, http, requests>>

\* the candidates of submitSearchManually, united.js 772-779, in list order
SearchSelectors ==
  << "button[type=\"submit\"]", "[data-test-id=\"search-button\"]",
     "button:contains(\"Search\")", ".search-button", "button.btn-primary",
     "[aria-label*=\"Search\"]" >>

\* what the page does with a candidate: page.$ resolves to null, or rejects,
\* or resolves to a button whose click rejects or resolves
CandidateResults == {"absent", "lookupThrows", "clickThrows", "clicked"}

\* a candidate was clicked, or none is left: united.js 797-804, the Enter
\* key when nothing was submitted, then the 3 s wait
AfterCandidates(c, f, h) ==
  IF \E k \in 1..Len(browser'[c].ui) : browser'[c].ui[k].result = "clicked"
  THEN Goto(c, "s_wait", [f EXCEPT !.selector = 0, !.timer = SubmitWait], h)
  ELSE Goto(c, "s_enter", [f EXCEPT !.selector = 0], h)

\* a variant of the loop that goes on to the next candidate after a click
SubmitStepNoBreak(c, res) ==
  /\ pc[c] = "submit"
  /\ LET f == frame[c]
         i == f.selector
     IN /\ browser' = [browser EXCEPT ![c].ui = Append(@, [step |-> SearchSelectors[i],
                                                           result |-> res])]
        /\ IF i = Len(SearchSelectors)
           THEN AfterCandidates(c, f, hist[c])
           ELSE Goto(c, "submit", [f EXCEPT !.selector = i + 1], hist[c])
  /\ UNCHANGED <<interceptedData, failedRequests, failedLists, pending, nextId, started,
                 report, trace, http, requests>>

\* one turn of the loop over the candidates, united.js 783-794: a candidate
\* that is found and clicked ends the loop (break); one that is absent, or
\* whose lookup or click throws (continue), leads to the next
SubmitStep(c, res) ==
  /\ pc[c] = "submit"
  /\ LET f == frame[c]
         i == f.selector
     IN /\ browser' = [browser EXCEPT ![c].ui = Append(@, [step |-> SearchSelectors[i],
                                                           result |-> res])]
        /\ IF res = "clicked" \/ i = Len(SearchSelectors)
           THEN AfterCandidates(c, f, hist[c])
           ELSE Goto(c, "submit", [f EXCEPT !.selector = i + 1], hist[c])
  /\ UNCHANGED <<interceptedData, failedRequests, failedLists, pending, nextId, started,
                 report, trace, http, requests>>

\* page.keyboard.press("Enter") settles, united.js 797-801; its error reaches
\* the outer catch, which rethrows it
SubmitEnter(c, ok) ==
  /\ pc[c] = "s_enter"
  /\ browser' = [browser EXCEPT ![c].ui = Append(@, [step |-> "Enter",
                                                     result |-> IF ok THEN "pressed"
                                                                      ELSE "throws"])]
  /\ IF ok
     THEN Goto(c, "s_wait", [frame[c] EXCEPT !.timer = SubmitWait], hist[c])
     ELSE Exit(c, Error("PageError", "Enter"), frame[c], hist[c])
  /\ UNCHANGED <<interceptedData, failedRequests, failedLists, pending, nextId, started,
                 report, trace, http, requests>>

\* the 3 s wait after the submission is over, united.js 804
SubmitDone(c) ==
  /\ pc[c] = "s_wait"
  /\ Due(c)
  /\ Exit(c, Value("undefined", NoMeta), [frame[c] EXCEPT !.timer = 0], hist[c])
  /\ UNCHANGED <<interceptedData, failedRequests, failedLists, browser, pending, nextId,
                 started, report, trace, http, requests>>

\* a caller that holds a page with the form on it calls submitSearchManually(page)
CallSubmitSearchManually(c) ==
  /\ pc[c] = "idle"
  /\ browser' = [browser EXCEPT ![c] = [InitBrowser EXCEPT !.launched = 1, !.loads = 1]]
  /\ Goto(c, "submit",
          [InitFrame EXCEPT !.entry = "submitSearchManually", !.selector = 1], InitHist)
  /\ UNCHANGED <<interceptedData, failedRequests, failedLists, pending, nextId, started,
                 report, trace, http, requests>>

\* ------------------------------------------------------------ the form driver on its own
NextForm ==
  \/ \E params \in FormParams : CallFillSearchFormManually(1, params)
  \/ \E ok \in BOOLEAN : FillStep(1, ok)
  \/ CallSubmitSearchManually(1)
  \/ \E res \in CandidateResults : SubmitStep(1, res)
  \/ \E ok \in BOOLEAN : SubmitEnter(1, ok)
  \/ SubmitDone(1)
  \/ Tick

SpecForm == Init /\ [][NextForm]_vars

\* ------------------------------------------------------------ reports
RECURSIVE SumSizes(_)
SumSizes(list) == IF list = <<>> THEN 0 ELSE list[1].size + SumSizes(Tail(list))

\* this.failedRequests || []
FailedRequestsOrEmpty == IF failedRequests = 0 THEN <<>> ELSE failedLists[failedRequests]

\* the object getSummary builds, united.js 627-639 (without the timestamps)
Summary ==
  [ totalResponses |-> Len(interceptedData),
    totalDataSize |-> SumSizes(interceptedData),
    responseUrls |-> [i \in 1..Len(interceptedData) |-> interceptedData[i].url],
    failedRequests |-> FailedRequestsOrEmpty,
    failedRequestCount |-> Len(FailedRequestsOrEmpty) ]

getSummary ==
  /\ report' = [kind |-> "summary", summary |-> Summary, possibleIssues |-> <<>>,
                 recommendations |-> <<>>]
  /\ UNCHANGED <<interceptedData, failedRequests, failedLists, pc, frame, browser,
                 outcome, hist, pending, nextId, started, trace, http, requests>>

Http2Issue == "HTTP/2 Protocol Errors detected - likely anti-bot protection"
Http2Advice ==
  << "Try using the form interaction method instead of URL navigation",
     "Consider adding longer delays between requests",
     "Try using a residential proxy or VPN" >>
EmptyIssue == "No API responses intercepted"
EmptyAdvice ==
  << "Check if United website structure has changed",
     "Verify the search URL is correct",
     "Try running with headless: false to see what's happening" >>

\* the records whose error text has the HTTP/2 signature, united.js 826-828
http2Errors(records) ==
  {i \in 1..Len(records) : Includes(records[i].error, <<"ERR_HTTP2_PROTOCOL_ERROR">>)}

\* a variant that blames every failure on the HTTP/2 protocol
getTroubleshootingInfoAnyFailure ==
  LET blamed == Summary.failedRequestCount > 0
      empty == Summary.totalResponses = 0
  IN /\ report' =
          [ kind |-> "troubleshooting", summary |-> Summary,
            possibleIssues |-> (IF blamed THEN <<Http2Issue>> ELSE <<>>)
                                 \o (IF empty THEN <<EmptyIssue>> ELSE <<>>),
            recommendations |-> (IF blamed THEN Http2Advice ELSE <<>>)
                                  \o (IF empty THEN EmptyAdvice ELSE <<>>) ]
     /\ UNCHANGED <<interceptedData, failedRequests, failedLists, pc, frame, browser,
                    outcome, hist, pending, nextId, started, trace, http, requests>>

\* the object getTroubleshootingInfo builds, united.js 814-857
TroubleshootingInfo ==
  LET blamed ==
        /\ Summary.failedRequestCount > 0
        /\ Cardinality(http2Errors(Summary.failedRequests)) > 0
      empty == Summary.totalResponses = 0
  IN [ kind |-> "troubleshooting", summary |-> Summary,
       possibleIssues |-> (IF blamed THEN <<Http2Issue>> ELSE <<>>)
                            \o (IF empty THEN <<EmptyIssue>> ELSE <<>>),
       recommendations |-> (IF blamed THEN Http2Advice ELSE <<>>)
                             \o (IF empty THEN EmptyAdvice ELSE <<>>) ]

\* a client calls getTroubleshootingInfo
getTroubleshootingInfo ==
  /\ report' = TroubleshootingInfo
  /\ UNCHANGED <<interceptedData, failedRequests, failedLists, pc, frame, browser,
                 outcome, hist, pending, nextId, started, trace, http, requests>>

\* ------------------------------------------------------------ the reports on their own
\* the longest failure list and capture list the reports are read from
MaxRecords == 2
DiagErrors ==
  { <<"net::", "ERR_HTTP2_PROTOCOL_ERROR">>, <<"net::", "ERR_CONNECTION_RESET">>,
    <<"Unknown error">> }
DiagFailures ==
  UNION { [1..n -> [url : {FetchFlightsUrl}, error : DiagErrors]] : n \in 0..MaxRecords }
DiagCaptures ==
  { [i \in 1..n |-> interceptedItem([id |-> i, url |-> FetchFlightsUrl, status |-> OkStatus],
                                    JsonBody(100))] : n \in 0..MaxRecords }

\* an engine no search has run on (this.failedRequests undefined), or one
\* whose last search left a failure list
InitDiag ==
  \E list \in DiagCaptures :
    \/ InitFull(list, TraceOff, <<>>, 0, <<>>)
    \/ \E failures \in DiagFailures : InitFull(list, TraceOff, <<>>, 1, failures)

NextDiag == getSummary \/ getTroubleshootingInfo

SpecDiag == InitDiag /\ [][NextDiag]_vars

\* ------------------------------------------------------------ one engine, one caller at a time
SearchUrls == {FetchFlightsUrl, OtherApiUrl}
SearchStatuses == {OkStatus, 500}
SearchBodies == {JsonBody(100), [kind |-> "malformed", size |-> 7]}
SearchTitles == {GoodTitle, ErrorTitle}
GotoErrors == {"net::ERR_TIMED_OUT"}
FailureTexts == {<<"net::", "ERR_HTTP2_PROTOCOL_ERROR">>}

AllQuiet == \A c \in Calls : pc[c] \in QuietPcs

Next ==
  \/ AllQuiet /\ CallSearchByURL(1)
  \/ AllQuiet /\ CallSearchByFormInteraction(1)
  \/ AllQuiet /\ clearData
  \/ pc[1] = "done" /\ getSummary
  \/ pc[1] = "done" /\ getTroubleshootingInfo
  \/ \E ok \in BOOLEAN : Launch(1, ok)
  \/ \E ok \in BOOLEAN : NewPage(1, ok)
  \/ \E ok \in BOOLEAN : Stealth(1, ok)
  \/ \E ok \in BOOLEAN : Intercept(1, ok)
  \/ \E res \in {"ok"} \cup GotoErrors : NavGoto(1, res)
  \/ \E title \in SearchTitles : NavSettled(1, title)
  \/ NavBackoffDone(1)
  \/ NavPageError(1)
  \/ WaitLoop(1)
  \/ WaitStabilized(1)
  \/ \E e, b, k, w \in BOOLEAN : checkPageStateAndRetrigger(1, e, b, k, w)
  \/ RetriggerDone(1)
  \/ WaitTick(1)
  \/ WaitPageError(1)
  \/ \E ok \in BOOLEAN : Close(1, ok)
  \/ \E url \in SearchUrls, st \in SearchStatuses : OnResponse(1, url, st)
  \/ \E r \in pending, body \in SearchBodies : OnResponseBody(r, body)
  \/ \E e \in FailureTexts : OnRequestFailed(1, FetchFlightsUrl, e)
  \/ Tick

Spec == Init /\ [][Next]_vars

\* ------------------------------------------------------------ a search on a used engine
\* the capture list an earlier search left behind when the caller did not
\* call clearData: one capture, smaller or larger than those of the new
\* search; its response precedes every response of the new search
CarriedId == 0
CarriedSizes == {80, 250}
CarriedLists ==
  { <<interceptedItem([id |-> CarriedId, url |-> FetchFlightsUrl, status |-> OkStatus],
                      JsonBody(s))>> : s \in CarriedSizes }

\* the failure list the earlier search left in this.failedRequests: empty, or
\* one failed request to the flight API
CarriedFailures ==
  {<<>>, <<[url |-> FetchFlightsUrl, error |-> <<"net::", "ERR_HTTP2_PROTOCOL_ERROR">>]>>}

\* the earlier search was call 2; the new search is call 1
InitCarry ==
  \E list \in CarriedLists, failures \in CarriedFailures :
    InitFull(list, TraceOff, <<>>, 2, failures)

\* the caller starts searchByURL without clearData, and reads the summary
\* when the search is over.  The detector starts on a non-empty list and
\* runs one iteration more than captures arrive, so its tenth iteration and
\* the retrigger check are out of reach
NextCarry ==
  \/ AllQuiet /\ CallSearchByURL(1)
  \/ pc[1] = "done" /\ getSummary
  \/ pc[1] = "done" /\ getTroubleshootingInfo
  \/ \E ok \in BOOLEAN : Launch(1, ok)
  \/ \E ok \in BOOLEAN : NewPage(1, ok)
  \/ \E ok \in BOOLEAN : Stealth(1, ok)
  \/ \E ok \in BOOLEAN : Intercept(1, ok)
  \/ \E res \in {"ok"} \cup GotoErrors : NavGoto(1, res)
  \/ \E title \in SearchTitles : NavSettled(1, title)
  \/ NavBackoffDone(1)
  \/ NavPageError(1)
  \/ WaitLoop(1)
  \/ WaitStabilized(1)
  \/ WaitTick(1)
  \/ WaitPageError(1)
  \/ \E ok \in BOOLEAN : Close(1, ok)
  \/ \E url \in SearchUrls, st \in SearchStatuses : OnResponse(1, url, st)
  \/ \E r \in pending, body \in SearchBodies : OnResponseBody(r, body)
  \/ \E e \in FailureTexts : OnRequestFailed(1, FetchFlightsUrl, e)
  \/ Tick

SpecCarry == InitCarry /\ [][NextCarry]_vars

\* ------------------------------------------------------------ the request layer
\* part_000 100
TimedOutMessage == "Search timed out after 2 minutes"

\* res.json({results, summary, timestamp}), part_000 107-116
ResultsResponse(results) ==
  [ status |-> OkStatus, kind |-> "results", results |-> results, summary |-> Summary,
    error |-> "", troubleshooting |-> NoReport ]

\* the catch block, part_000 117-128:
\* res.status(500).json({error, troubleshooting, timestamp})
ErrorResponse(message) ==
  [ status |-> ErrorStatus, kind |-> "error", results |-> NoResult, summary |-> <<>>,
    error |-> message, troubleshooting |-> TroubleshootingInfo ]

\* the promise of a searchByURL call has settled and the handler that awaits
\* it has not run yet: its continuation is a microtask, which runs before any
\* other callback does
SettlementDue(r) == http[r].awaiting /\ pc[r] = "done"
NoSettlementDue == \A r \in Calls : ~SettlementDue(r)

\* the moments at which a further request arrives: every earlier request has
\* arrived, and its search has just begun to await its first page load, or
\* has just entered the completion detector, or is over together with its
\* timer
ArrivalMoment(r) ==
  \A q \in Calls :
    q < r =>
      /\ http[q].pc # "idle"
      /\ \/ pc[q] = "nav_goto" /\ frame[q].attempt = 1
         \/ pc[q] = "w_loop" /\ frame[q].checkCount = 0
         \/ pc[q] \in QuietPcs /\ ~http[q].timerLive

\* POST /api/search arrives, part_000 81-104: without a url the handler
\* throws into its own catch block and answers at once; with one it clears
\* the capture list, starts searchByURL on the shared engine (which runs up
\* to `await puppeteer.launch`), arms the 120 s timer and awaits the race
PostSearch(r, hasUrl) ==
  /\ http[r].pc = "idle"
  /\ ArrivalMoment(r)
  /\ IF hasUrl
     THEN /\ interceptedData' = <<>>
          /\ EnterSearchByURL(r)
          /\ http' = [http EXCEPT ![r] = [@ EXCEPT !.pc = "racing", !.timer = SearchTimeout,
                                                   !.timerLive = TRUE, !.awaiting = TRUE]]
     ELSE /\ http' = [http EXCEPT ![r] =
                        [@ EXCEPT !.pc = "done",
                                  !.sent = Append(@, ErrorResponse("URL is required"))]]
          /\ UNCHANGED <<interceptedData, pc, frame, browser, outcome, hist>>
  /\ UNCHANGED <<failedRequests, failedLists, pending, nextId, started, report, trace, requests>>

\* a variant in which the handler answers whenever the search settles
SearchSettledAlwaysAnswers(r) ==
  /\ SettlementDue(r)
  /\ http' = [http EXCEPT ![r] =
                [@ EXCEPT !.pc = "done", !.awaiting = FALSE,
                          !.sent = Append(@, IF outcome[r].kind = "value"
                                             THEN ResultsResponse(outcome[r])
                                             ELSE ErrorResponse(outcome[r].cause))]]
  /\ UNCHANGED <<interceptedData, failedRequests, failedLists, pc, frame, browser,
                 outcome, hist, pending, nextId, started, report, trace, requests>>

\* the promise of searchByURL settles, part_000 104-128: while the race is
\* open the handler resumes, with the results (getSummary, res.json) or in
\* its catch block with the error; after the race was lost to the timer
\* nothing is listening any more
SearchSettled(r) ==
  /\ SettlementDue(r)
  /\ http' = [http EXCEPT ![r] =
                IF http[r].pc = "racing"
                THEN [@ EXCEPT !.pc = "done", !.awaiting = FALSE,
                               !.sent = Append(@, IF outcome[r].kind = "value"
                                                  THEN ResultsResponse(outcome[r])
                                                  ELSE ErrorResponse(outcome[r].cause))]
                ELSE [@ EXCEPT !.awaiting = FALSE]]
  /\ UNCHANGED <<interceptedData, failedRequests, failedLists, pc, frame, browser,
                 outcome, hist, pending, nextId, started, report, trace, requests>>

\* the setTimeout callback runs, part_000 99-101: it rejects timeoutPromise;
\* while the race is open the handler resumes in its catch block, after the
\* race was won by the search the rejection goes nowhere
RaceTimeout(r) ==
  /\ http[r].timerLive
  /\ http[r].timer = 0
  /\ http' = [http EXCEPT ![r] =
                IF http[r].pc = "racing"
                THEN [@ EXCEPT !.pc = "done", !.timerLive = FALSE,
                               !.sent = Append(@, ErrorResponse(TimedOutMessage))]
                ELSE [@ EXCEPT !.timerLive = FALSE]]
  /\ UNCHANGED <<interceptedData, failedRequests, failedLists, pc, frame, browser,
                 outcome, hist, pending, nextId, started, report, trace, requests>>

\* the pages' and the browsers' side of a search behind the request layer:
\* the page's API answers while the page settles after a load, and its body
\* is read before the clock moves on
ServerGotoErrors == {"net::ERR_HTTP2_PROTOCOL_ERROR"}

NextServer ==
  \/ \E r \in Calls : SearchSettled(r)
  \/ \E r \in Calls, hasUrl \in BOOLEAN : NoSettlementDue /\ PostSearch(r, hasUrl)
  \/ \E r \in Calls : NoSettlementDue /\ RaceTimeout(r)
  \/ \E c \in Calls, ok \in BOOLEAN : NoSettlementDue /\ Launch(c, ok)
  \/ \E c \in Calls : NoSettlementDue /\ NewPage(c, TRUE)
  \/ \E c \in Calls : NoSettlementDue /\ Stealth(c, TRUE)
  \/ \E c \in Calls : NoSettlementDue /\ Intercept(c, TRUE)
  \/ \E c \in Calls, res \in {"ok"} \cup ServerGotoErrors : NoSettlementDue /\ NavGoto(c, res)
  \/ \E c \in Calls : NoSettlementDue /\ NavGotoSlow(c)
  \/ \E c \in Calls : NoSettlementDue /\ NavGotoTimeout(c)
  \/ \E c \in Calls : NoSettlementDue /\ NavSettled(c, GoodTitle)
  \/ \E c \in Calls : NoSettlementDue /\ NavBackoffDone(c)
  \/ \E c \in Calls : NoSettlementDue /\ WaitLoop(c)
  \/ \E c \in Calls : NoSettlementDue /\ WaitStabilized(c)
  \/ \E c \in Calls :
       NoSettlementDue /\ checkPageStateAndRetrigger(c, FALSE, FALSE, FALSE, FALSE)
  \/ \E c \in Calls : NoSettlementDue /\ WaitTick(c)
  \/ \E c \in Calls : NoSettlementDue /\ Close(c, TRUE)
  \/ \E c \in Calls :
       NoSettlementDue /\ pc[c] = "nav_settle" /\ OnResponse(c, FetchFlightsUrl, OkStatus)
  \/ \E r \in pending : NoSettlementDue /\ OnResponseBody(r, JsonBody(100))
  \/ NoSettlementDue /\ pending = {} /\ Tick

SpecServer == Init /\ [][NextServer]_vars

\* the steps of the search of call c that the engine or the page takes by
\* itself once they are possible: every awaited page operation settles
SearchProgress(c) ==
  \/ \E ok \in BOOLEAN : NoSettlementDue /\ Launch(c, ok)
  \/ NoSettlementDue /\ NewPage(c, TRUE)
  \/ NoSettlementDue /\ Stealth(c, TRUE)
  \/ NoSettlementDue /\ Intercept(c, TRUE)
  \/ \E res \in {"ok"} \cup ServerGotoErrors : NoSettlementDue /\ NavGoto(c, res)
  \/ NoSettlementDue /\ NavGotoSlow(c)
  \/ NoSettlementDue /\ NavGotoTimeout(c)
  \/ NoSettlementDue /\ NavSettled(c, GoodTitle)
  \/ NoSettlementDue /\ NavBackoffDone(c)
  \/ NoSettlementDue /\ WaitLoop(c)
  \/ NoSettlementDue /\ WaitStabilized(c)
  \/ NoSettlementDue /\ checkPageStateAndRetrigger(c, FALSE, FALSE, FALSE, FALSE)
  \/ NoSettlementDue /\ WaitTick(c)
  \/ NoSettlementDue /\ Close(c, TRUE)

\* the event loop runs what is ready: each search goes on, a settled promise
\* resumes its awaiter, a timer that is due fires, a body read settles, and
\* time passes when nothing else is ready
FairServer ==
  /\ \A c \in Calls : WF_vars(SearchProgress(c))
  /\ WF_vars(\E r \in Calls : SearchSettled(r))
  /\ WF_vars(\E r \in Calls : NoSettlementDue /\ RaceTimeout(r))
  /\ WF_vars(\E r \in pending : NoSettlementDue /\ OnResponseBody(r, JsonBody(100)))
  /\ WF_vars(NoSettlementDue /\ pending = {} /\ Tick)

SpecServerFair == Init /\ [][NextServer]_vars /\ FairServer

\* ------------------------------------------------------------ the parser on its own
\* the longest capture list the parser is handed
MaxLen == 4
ParseSizes == {80, 100, 250}

\* the capture lists of up to MaxLen captures, the i-th response captured i-th
ParseLists ==
  { [i \in 1..n |-> interceptedItem([id |-> i, url |-> FetchFlightsUrl, status |-> OkStatus],
                                    JsonBody(sizes[i]))] :
      n \in 0..MaxLen, sizes \in [1..MaxLen -> ParseSizes] }

\* a caller invokes parseInterceptedData(options) on the engine
CallParseInterceptedData(c) ==
  /\ pc[c] = "idle"
  /\ pc' = [pc EXCEPT ![c] = "done"]
  /\ frame' = [frame EXCEPT ![c] = [InitFrame EXCEPT !.entry = "parseInterceptedData"]]
  /\ outcome' = [outcome EXCEPT ![c] = parseInterceptedData(interceptedData)]
  /\ UNCHANGED <<interceptedData, failedRequests, failedLists, browser, hist, pending,
                 nextId, started, report, trace, http, requests>>

InitParse == \E list \in ParseLists : InitWith(list, TraceOff)

NextParse == CallParseInterceptedData(1)

SpecParse == InitParse /\ [][NextParse]_vars

\* ------------------------------------------------------------ the URL test on its own
\* the longest URL, in tokens
MaxUrlLen == 3
UrlTokens == {"united.com", "cdn.net", "/api/", "flight/", "FetchFlights", "auth"}
MatchUrls == UNION {[1..n -> UrlTokens] : n \in 0..MaxUrlLen}

\* a caller invokes isFetchFlightsAPI(url) with the URL it holds
CallIsFetchFlightsAPI(c) ==
  /\ pc[c] = "idle"
  /\ pc' = [pc EXCEPT ![c] = "done"]
  /\ frame' = [frame EXCEPT ![c].entry = "isFetchFlightsAPI"]
  /\ outcome' = [outcome EXCEPT ![c] =
                   Value(IF isFetchFlightsAPI(frame[c].arg) THEN "true" ELSE "false", NoMeta)]
  /\ UNCHANGED <<interceptedData, failedRequests, failedLists, browser, hist, pending,
                 nextId, started, report, trace, http, requests>>

InitMatch == \E url \in MatchUrls : InitArgs(<<>>, TraceOff, url)

NextMatch == CallIsFetchFlightsAPI(1)

SpecMatch == InitMatch /\ [][NextMatch]_vars

\* ------------------------------------------------------------ the normalizer on its own
\* the longest list of trip entries a payload carries
MaxTrips == 2

\* the JSON values a payload can hold where a list is looked for: nothing, a
\* plain object, or an array with its elements
Undefined == [type |-> "undefined", items |-> <<>>]
PlainObject == [type |-> "object", items |-> <<>>]
ArrayOf(items) == [type |-> "array", items |-> items]

\* of these values only undefined is falsy; Array.isArray
Truthy(v) == v.type # "undefined"
IsArray(v) == v.type = "array"

\* the entries of United's lists, one well-formed element each
FareColumn == [Type |-> "ECONOMY", FareFamily |-> "ECO-BASIC", IsFullyRefundable |-> FALSE]
Destination == [Code |-> "JFK", Amount |-> "199", Currency |-> "USD"]
Equipment == [Code |-> "738", Description |-> "Boeing 737-800"]

NoColumnInformation == [present |-> FALSE, Columns |-> Undefined]
NoSearchFiltersOut ==
  [ present |-> FALSE, AirportsDestinationList |-> Undefined, EquipmentList |-> Undefined,
    PriceMin |-> 0 ]

\* a trip entry; TripIndex and Index are 0 where the entry has none
TripEntry(isNull, tripIndex, index, columnInformation, searchFiltersOut) ==
  [ null |-> isNull, TripIndex |-> tripIndex, Index |-> index, Origin |-> "SFO",
    ColumnInformation |-> columnInformation, SearchFiltersOut |-> searchFiltersOut ]

NullTrip == TripEntry(TRUE, 0, 0, NoColumnInformation, NoSearchFiltersOut)

\* the trip entries drawn: a null, a complete trip, a trip with an Index and
\* no substructure, a trip whose Columns is an object, a trip whose filters
\* carry no list, a trip whose EquipmentList is an object
ExtractTrips ==
  { NullTrip,
    TripEntry(FALSE, 1, 0, [present |-> TRUE, Columns |-> ArrayOf(<<FareColumn>>)],
              [ present |-> TRUE, AirportsDestinationList |-> ArrayOf(<<Destination>>),
                EquipmentList |-> ArrayOf(<<Equipment>>), PriceMin |-> 199 ]),
    TripEntry(FALSE, 0, 2, NoColumnInformation, NoSearchFiltersOut),
    TripEntry(FALSE, 3, 0, [present |-> TRUE, Columns |-> PlainObject], NoSearchFiltersOut),
    TripEntry(FALSE, 4, 0, [present |-> TRUE, Columns |-> Undefined],
              [ present |-> TRUE, AirportsDestinationList |-> Undefined,
                EquipmentList |-> Undefined, PriceMin |-> 89 ]),
    TripEntry(FALSE, 5, 0, NoColumnInformation,
              [ present |-> TRUE, AirportsDestinationList |-> Undefined,
                EquipmentList |-> PlainObject, PriceMin |-> 89 ]) }

TripLists == UNION {[1..n -> ExtractTrips] : n \in 0..MaxTrips}

\* what can stand where a trip list is looked for
ListValues == {Undefined, PlainObject} \cup {ArrayOf(list) : list \in TripLists}

\* a payload: its JSON type, its Trips field, its data field with that
\* object's Trips field, and its elements when it is an array
Payload(type, Trips, data, items) ==
  [type |-> type, Trips |-> Trips, data |-> data, items |-> items]
NoData == [type |-> "undefined", Trips |-> Undefined]
DataWith(Trips) == [type |-> "object", Trips |-> Trips]

\* the three ways a payload carries a trip list
TopLevelPayload(list) == Payload("object", ArrayOf(list), NoData, <<>>)
NestedPayload(list) == Payload("object", Undefined, DataWith(ArrayOf(list)), <<>>)
BarePayload(list) == Payload("array", Undefined, NoData, list)

ExtractPayloads ==
  { Payload(type, Undefined, NoData, <<>>) : type \in {"null", "number", "string"} }
    \cup { Payload("object", t, NoData, <<>>) : t \in ListValues }
    \cup { Payload("object", t, DataWith(n), <<>>) : t \in ListValues, n \in ListValues }
    \cup { BarePayload(list) : list \in TripLists }

\* a lookup that knows only the top-level Trips field
tripsTopLevelOnly(data) ==
  IF Truthy(data.Trips) /\ IsArray(data.Trips) THEN data.Trips ELSE ArrayOf(<<>>)

\* united.js 509-517: `let trips = []`, then the first of data.Trips (an
\* array), data.data.Trips (anything truthy), data (an array)
trips(data) ==
  IF Truthy(data.Trips) /\ IsArray(data.Trips) THEN data.Trips
  ELSE IF Truthy(data.data) /\ Truthy(data.data.Trips) THEN data.data.Trips
  ELSE IF IsArray(data) THEN ArrayOf(data.items)
  ELSE ArrayOf(<<>>)

\* parseFloat(dest.Amount) || 0 over the amounts drawn, united.js 557
parsePrice(amount) == IF amount = "199" THEN 199 ELSE 0

\* Array.prototype.map of the fare columns, united.js 536-544
fareOf(column) ==
  [ type |-> column.Type, fareFamily |-> column.FareFamily,
    isRefundable |-> column.IsFullyRefundable ]
\* united.js 553-560
pricingOf(dest) ==
  [airport |-> dest.Code, price |-> parsePrice(dest.Amount), currency |-> dest.Currency]
\* united.js 566-569
aircraftOf(eq) == [code |-> eq.Code, description |-> eq.Description]

\* a normalizer that reads the substructures of a trip without looking
\* whether they are there
MapThrowsUnguarded(trip) ==
  \/ ~trip.ColumnInformation.present
  \/ ~trip.SearchFiltersOut.present
  \/ ~IsArray(trip.ColumnInformation.Columns)
  \/ ~IsArray(trip.SearchFiltersOut.AirportsDestinationList)
  \/ ~IsArray(trip.SearchFiltersOut.EquipmentList)

\* `.map` on a truthy value that is not an array is a TypeError, united.js
\* 536, 552, 566
MapThrows(trip) ==
  \/ trip.ColumnInformation.present /\ Truthy(trip.ColumnInformation.Columns)
       /\ ~IsArray(trip.ColumnInformation.Columns)
  \/ trip.SearchFiltersOut.present /\ Truthy(trip.SearchFiltersOut.AirportsDestinationList)
       /\ ~IsArray(trip.SearchFiltersOut.AirportsDestinationList)
  \/ trip.SearchFiltersOut.present /\ Truthy(trip.SearchFiltersOut.EquipmentList)
       /\ ~IsArray(trip.SearchFiltersOut.EquipmentList)

\* united.js 522-596: the FlightOption of one trip entry
flightInfo(trip) ==
  [ tripIndex |-> IF trip.TripIndex # 0 THEN trip.TripIndex ELSE trip.Index,
    origin |-> trip.Origin,
    fares |-> IF trip.ColumnInformation.present /\ Truthy(trip.ColumnInformation.Columns)
              THEN [i \in DOMAIN trip.ColumnInformation.Columns.items |->
                      fareOf(trip.ColumnInformation.Columns.items[i])]
              ELSE <<>>,
    pricing |-> IF trip.SearchFiltersOut.present
                     /\ Truthy(trip.SearchFiltersOut.AirportsDestinationList)
                THEN [i \in DOMAIN trip.SearchFiltersOut.AirportsDestinationList.items |->
                        pricingOf(trip.SearchFiltersOut.AirportsDestinationList.items[i])]
                ELSE <<>>,
    aircraft |-> IF trip.SearchFiltersOut.present /\ Truthy(trip.SearchFiltersOut.EquipmentList)
                 THEN [i \in DOMAIN trip.SearchFiltersOut.EquipmentList.items |->
                         aircraftOf(trip.SearchFiltersOut.EquipmentList.items[i])]
                 ELSE <<>>,
    searchFilters |-> IF trip.SearchFiltersOut.present
                      THEN [set |-> TRUE, priceMin |-> trip.SearchFiltersOut.PriceMin]
                      ELSE [set |-> FALSE, priceMin |-> 0] ]

\* what extractFlightInfo returns: the flights, the error marker ("" where
\* the result has no error field) and whether it carries searchInfo
Extracted(flights, error) ==
  [flights |-> flights, error |-> error, searchInfo |-> error = ""]

\* the loop of united.js 519-598 from the i-th entry on; an exception leaves
\* the loop for the catch of 612-619 with the flights pushed so far
RECURSIVE ExtractFrom(_, _, _)
ExtractFrom(items, i, flights) ==
  IF i > Len(items) THEN Extracted(flights, "")
  ELSE IF items[i].null THEN ExtractFrom(items, i + 1, flights)
  ELSE IF MapThrows(items[i]) THEN Extracted(flights, "Failed to parse flight data")
  ELSE ExtractFrom(items, i + 1, Append(flights, flightInfo(items[i])))

\* united.js 496-620
extractFlightInfo(data) ==
  IF data.type \notin {"object", "array"} THEN Extracted(<<>>, "Invalid response data")
  ELSE IF ~IsArray(trips(data)) THEN Extracted(<<>>, "Failed to parse flight data")
  ELSE ExtractFrom(trips(data).items, 1, <<>>)

\* the value a caller of extractFlightInfo holds: the result object with its
\* flights and its error marker
Returned(result) ==
  [ kind |-> "value", type |-> "flightInfo", cause |-> result.error, meta |-> NoMeta,
    failures |-> <<>>, flights |-> result.flights ]

\* a caller invokes extractFlightInfo(data) with the payload it holds
CallExtractFlightInfo(c) ==
  /\ pc[c] = "idle"
  /\ pc' = [pc EXCEPT ![c] = "done"]
  /\ frame' = [frame EXCEPT ![c].entry = "extractFlightInfo"]
  /\ outcome' = [outcome EXCEPT ![c] = Returned(extractFlightInfo(frame[c].arg))]
  /\ UNCHANGED <<interceptedData, failedRequests, failedLists, browser, hist, pending,
                 nextId, started, report, trace, http, requests>>

InitExtract == \E data \in ExtractPayloads : InitArgs(<<>>, TraceOff, data)

NextExtract == CallExtractFlightInfo(1)

SpecExtract == InitExtract /\ [][NextExtract]_vars

\* ------------------------------------------------------------ properties
WaitPcs == {"w_loop", "w_stab", "w_retrig", "w_retrig_wait", "w_tick"}

IsPrefix(s, t) == Len(s) <= Len(t) /\ SubSeq(t, 1, Len(s)) = s

\* a load attempt that threw (page.goto rejected, or the settle wait or
\* page.title() did)
Threw(load) == load \notin {"ok", "badTitle"}

\* what the caller of call c gets, or is about to get once the browser is closed
Pending(c) == IF pc[c] = "closing" THEN frame[c].result ELSE outcome[c]

\* C1: a searchByURL call launches at most one browser and closes it at most
\* once; while the close has not been made the caller has neither a result nor
\* an error; once the caller has one, every browser the call launched has
\* been closed exactly once.
BrowserClosedOnEveryExit ==
  \A c \in Calls :
    /\ browser[c].launched <= 1
    /\ browser[c].closed <= browser[c].launched
    /\ browser[c].closed < browser[c].launched => outcome[c].kind = "none"
    /\ outcome[c].kind # "none" => browser[c].closed = browser[c].launched

\* a search whose detector ran out of time with nothing captured: the error
\* reached the caller after the one close
ClosedAfterEmptyCapture ==
  \E c \in Calls :
    /\ outcome[c] = EmptyCaptureError
    /\ browser[c].launched = 1
    /\ browser[c].closed = 1

\* C2: every step other than clearData leaves the captures already in the
\* list where they are: the old list is a prefix of the new one, so nothing is
\* removed, replaced or reordered and the length never decreases.
CaptureListAppendOnly == [][clearData \/ IsPrefix(interceptedData, interceptedData')]_vars

\* two captures in the list, and the troubleshooting report read from it
TwoCapturesReported ==
  /\ Len(interceptedData) = 2
  /\ report.kind = "troubleshooting"
  /\ report.summary.totalResponses = 2

\* C3: the captures are in the list in the order in which their response
\* events fired (ids are arrival ranks).
CapturesInResponseOrder ==
  \A i, j \in 1..Len(interceptedData) :
    i < j => interceptedData[i].id < interceptedData[j].id

\* C4: the capture parseInterceptedData reports as selected is an element of
\* the list, no capture of the list is larger, and every capture before it is
\* strictly smaller (first-seen wins among equal maximal sizes).
LargestFirstSeenSelected ==
  \A c \in Calls :
    (frame[c].entry = "parseInterceptedData" /\ pc[c] = "done" /\ interceptedData # <<>>) =>
      \E k \in 1..Len(interceptedData) :
        /\ outcome[c].type = "result"
        /\ outcome[c].meta.responseId = interceptedData[k].id
        /\ outcome[c].meta.responseSize = interceptedData[k].size
        /\ outcome[c].meta.apiUrl = interceptedData[k].url
        /\ \A j \in 1..Len(interceptedData) : interceptedData[j].size <= interceptedData[k].size
        /\ \A j \in 1..(k - 1) : interceptedData[j].size < interceptedData[k].size

\* sizes [100, 250, 250, 80]: the second capture is selected
SecondOfFourSelected ==
  /\ pc[1] = "done"
  /\ [i \in 1..Len(interceptedData) |-> interceptedData[i].size] = <<100, 250, 250, 80>>
  /\ outcome[1].meta.responseId = 2
  /\ outcome[1].meta.interceptedResponses = 4

\* C5: with maxRetries = 3, when the first two load attempts throw and the
\* third succeeds, navigateWithRetry has returned normally at that point, it
\* asked for a wait of 2 (x 1000 ms) after attempt 1 and of 4 after attempt 2,
\* at least those waits and the last settle wait have passed, and the page has
\* been loaded exactly 3 times.
ThirdAttemptSucceedsAfterBackoff ==
  ( /\ trace.maxRetries = 3
    /\ Len(trace.loads) >= 3
    /\ Threw(trace.loads[1])
    /\ Threw(trace.loads[2])
    /\ trace.loads[3] = "ok" ) =>
      /\ pc[1] = "done"
      /\ outcome[1] = Value("undefined", NoMeta)
      /\ trace.backoffs = <<2, 4>>
      /\ trace.clock >= 2 + 4 + SettleWait
      /\ trace.loads = <<trace.loads[1], trace.loads[2], "ok">>
      /\ browser[1].loads = 3

\* two rejected page.goto calls, then a load with a good title
TwoFailuresThenSuccess ==
  /\ trace.maxRetries = 3
  /\ trace.loads = <<"net::ERR_TIMED_OUT", "net::ERR_ABORTED", "ok">>
  /\ pc[1] = "done"
  /\ trace.clock = 9

DetectorOnlyAfterGoodTitle ==
  \A c \in Calls : pc[c] \in WaitPcs => hist[c].lastLoad # "badTitle"

\* the detector was called at time 0 with a budget of 10 (x 1000 ms), the
\* only captures arrived at times 1 and 2, and it has returned normally
ReturnedAfterCapturesAtOneAndTwo ==
  /\ trace.maxWait = 10
  /\ trace.waitStart = 0
  /\ trace.arrivals = <<1, 2>>
  /\ pc[1] = "done"
  /\ outcome[1].kind = "value"

\* C8 as stated: with captures at 1 s and 2 s and none afterwards the detector
\* returns at about 5 s (within one tick of it).
ReturnsAboutFiveSeconds ==
  ReturnedAfterCapturesAtOneAndTwo => trace.waitEnd \in 4..6

\* C8, amended: the detector returns by stabilization only after a window of
\* 3 s that began at one of its growth checks and in which the count did not
\* change, so never sooner than 3 s after the last capture it returns with;
\* with captures at 1 s and 2 s and none afterwards it returns, stabilized, at
\* 5 s, 8 s or 9 s.
ReturnsAfterQuietWindow ==
  /\ ( /\ pc[1] = "done"
       /\ hist[1].waitExit = "stabilized"
       /\ Len(trace.arrivals) = hist[1].lenAtExit ) =>
         /\ hist[1].lenAtExit >= 1
         /\ trace.waitEnd >= trace.arrivals[Len(trace.arrivals)] + StabilizationWait
  /\ ReturnedAfterCapturesAtOneAndTwo =>
       /\ hist[1].waitExit = "stabilized"
       /\ trace.waitEnd \in {5, 8, 9}

\* captures at 1 s and 2 s, the first one seen by the check at 1 s: the
\* detector returns at 8 s
ReturnedAtEightSeconds ==
  /\ ReturnedAfterCapturesAtOneAndTwo
  /\ trace.waitEnd = 8

\* C9: when no capture arrived while the detector ran, it has not returned
\* normally; the empty-capture error is raised no sooner than maxWait after
\* the start and no later than one retrigger pause after that, and at maxWait
\* exactly for a budget of 5 (x 1000 ms).
EmptyCaptureErrorAtMaxWait ==
  ( /\ frame[1].entry = "waitForSearchResults"
    /\ pc[1] = "done"
    /\ trace.arrivals = <<>> ) =>
      /\ interceptedData = <<>>
      /\ outcome[1].kind = "error"
      /\ outcome[1] = EmptyCaptureError <=> hist[1].waitExit = "empty"
      /\ outcome[1] = EmptyCaptureError =>
           /\ trace.waitEnd - trace.waitStart >= trace.maxWait
           /\ trace.waitEnd - trace.waitStart <= trace.maxWait + RetriggerWait
           /\ trace.maxWait = 5 => trace.waitEnd - trace.waitStart = 5

\* nothing captured with a budget of 5: the error at time 5
EmptyCaptureErrorAtFive ==
  /\ trace.maxWait = 5
  /\ trace.arrivals = <<>>
  /\ outcome[1] = EmptyCaptureError
  /\ trace.waitEnd = 5

\* C10: when the detector of a search runs out of time with at least one
\* capture in the list it returns normally, and the result the search is
\* about to hand over, or has handed over, is parseInterceptedData of the
\* captures in the list at that time.
TimeoutWithCapturesReturnsThem ==
  \A c \in Calls :
    (frame[c].entry # "waitForSearchResults" /\ hist[c].waitExit = "timeout") =>
      /\ hist[c].lenAtExit >= 1
      /\ pc[c] = "closing" =>
           /\ IsPrefix(SubSeq(interceptedData, 1, hist[c].lenAtExit), interceptedData)
           /\ Pending(c) = parseInterceptedData(SubSeq(interceptedData, 1, hist[c].lenAtExit))
      /\ (pc[c] = "done" /\ outcome[c] # Error("PageError", "close")) =>
           /\ outcome[c].kind = "value"
           /\ outcome[c].type = "result"
           /\ outcome[c].meta.interceptedResponses = hist[c].lenAtExit

\* a search whose detector ran out of time with two captures, never having
\* seen a quiet window, handed over a result built from both
TimedOutSearchReturnedTwo ==
  \E c \in Calls :
    /\ hist[c].waitExit = "timeout"
    /\ pc[c] = "done"
    /\ outcome[c].type = "result"
    /\ outcome[c].meta.interceptedResponses = 2

\* C11: a search never hands over, and is never about to hand over, the
\* "No data intercepted" value of parseInterceptedData: every value a search
\* returns is built from at least one capture, the detector of a search
\* returns normally only with a non-empty list, and a detector that runs out
\* of time with an empty list ends the search with the empty-capture error.
SearchNeverReturnsNoData ==
  \A c \in Calls :
    hist[c].entry \in {"searchByURL", "searchByFormInteraction"} =>
      /\ Pending(c).type # "noData"
      /\ Pending(c).kind = "value" =>
           /\ Pending(c).type = "result"
           /\ Pending(c).meta.interceptedResponses >= 1
           /\ hist[c].waitExit \in {"stabilized", "timeout"}
      /\ hist[c].waitExit \in {"stabilized", "timeout"} => hist[c].lenAtExit >= 1
      /\ (hist[c].waitExit = "empty" /\ pc[c] = "closing") =>
           /\ Pending(c) = EmptyCaptureError
           /\ hist[c].lenAtExit = 0

\* responses came in during a search, none was captured, and the search
\* ended with the empty-capture error
EmptyCaptureDespiteResponses ==
  \E c \in Calls :
    /\ hist[c].entry = "searchByURL"
    /\ hist[c].waitExit = "empty"
    /\ nextId > 1
    /\ interceptedData = <<>>
    /\ pc[c] = "done"
    /\ outcome[c] = EmptyCaptureError

\* isFetchFlightsAPI has answered for the URL it was handed
Answered(c) == frame[c].entry = "isFetchFlightsAPI" /\ pc[c] = "done"

ParseFailureIsContained ==
  [][trace'.parseFailures # trace.parseFailures =>
       UNCHANGED <<interceptedData, failedRequests, failedLists, pc, frame, browser,
                   outcome, hist>>]_vars

\* a body failed to parse, another response was captured, and the detector
\* returned by stabilization with that capture
CompletedDespiteParseFailure ==
  /\ trace.parseFailures = 1
  /\ Len(interceptedData) = 1
  /\ pc[1] = "done"
  /\ hist[1].waitExit = "stabilized"
  /\ outcome[1].kind = "value"

\* C14: right after clearData both lists are empty: getSummary would report
\* totalResponses = 0 and failedRequestCount = 0.
ClearDataEmptiesBothLists ==
  [][clearData => (Summary'.totalResponses = 0 /\ Summary'.failedRequestCount = 0)]_vars

\* C16: a searchByFormInteraction call that has ended had acquired a browser
\* session (and closed it), and did not end with an error of its own making
\* before any page was opened.
FormSearchAcquiresSession ==
  \A c \in Calls :
    (hist[c].entry = "searchByFormInteraction" /\ pc[c] = "done") =>
      /\ browser[c].launched = 1
      /\ browser[c].closed = 1
      /\ outcome[c].type # "ReferenceError"

\* C17: the empty-capture error a search raises carries the failure records
\* its observers accumulated.
EmptyCaptureErrorCarriesFailures ==
  \A c \in Calls :
    (hist[c].waitExit = "empty" /\ pc[c] \in {"closing", "done"}
       /\ Pending(c).type = "EmptyCapture") =>
      Pending(c).failures = failedLists[c]

InSeq(x, seq) == \E i \in 1..Len(seq) : seq[i] = x

\* C18: the troubleshooting report names the anti-bot issue, and recommends
\* the form-interaction method, exactly when some record of the failure list
\* has an error text containing ERR_HTTP2_PROTOCOL_ERROR.
Http2FailuresAreDiagnosed ==
  report.kind = "troubleshooting" =>
    LET signed == \E i \in 1..Len(FailedRequestsOrEmpty) :
                    Includes(FailedRequestsOrEmpty[i].error, <<"ERR_HTTP2_PROTOCOL_ERROR">>)
    IN /\ InSeq(Http2Issue, report.possibleIssues) <=> signed
       /\ InSeq(Http2Advice[1], report.recommendations) <=> signed

\* two failures, one of them with the signature: issue and recommendation
\* are in the report
OneSignedFailureDiagnosed ==
  /\ report.kind = "troubleshooting"
  /\ Len(FailedRequestsOrEmpty) = 2
  /\ FailedRequestsOrEmpty[1].error = <<"net::", "ERR_CONNECTION_RESET">>
  /\ FailedRequestsOrEmpty[2].error = <<"net::", "ERR_HTTP2_PROTOCOL_ERROR">>
  /\ InSeq(Http2Issue, report.possibleIssues)
  /\ InSeq("Try using the form interaction method instead of URL navigation",
           report.recommendations)

\* C20: within one session of a search call the steps keep their order: the
\* observers exist only once the stealth set-up has completed, they are
\* installed at most once, a page load is issued only with the observers in
\* place, and the completion detector runs only after navigateWithRetry has
\* returned (its locals are gone and its last load attempt has been judged).
SessionStepsInOrder ==
  \A c \in Calls :
    hist[c].entry \in {"searchByURL", "searchByFormInteraction"} =>
      /\ browser[c].stealth <= 1
      /\ browser[c].installs <= 1
      /\ browser[c].installs > 0 => browser[c].stealth = 1
      /\ browser[c].loads > 0 => browser[c].installs = 1
      /\ pc[c] \in {"stealth", "newPage", "launch"} =>
           browser[c].installs = 0 /\ browser[c].loads = 0
      /\ pc[c] \in WaitPcs =>
           /\ browser[c].loads >= 1
           /\ frame[c].attempt = 0
           /\ hist[c].lastLoad \in {"ok", "badTitle"}

\* C20 witness: a searchByURL call is in the completion detector after a
\* second load attempt, with one stealth set-up and one observer installation
DetectorAfterSecondLoad ==
  \E c \in Calls :
    /\ hist[c].entry = "searchByURL"
    /\ pc[c] \in WaitPcs
    /\ browser[c].stealth = 1
    /\ browser[c].installs = 1
    /\ browser[c].loads = 2

\* the response is the one the handler's path calls for
ResponseFits(r, m) ==
  \/ /\ m.kind = "results"
     /\ m.status = OkStatus
     /\ outcome[r].kind = "value"
     /\ m.results = outcome[r]
     /\ m.summary # <<>>
  \/ /\ m.kind = "error"
     /\ m.status = ErrorStatus
     /\ m.troubleshooting.kind = "troubleshooting"
     /\ \/ m.error = "URL is required" /\ hist[r].entry = ""
        \/ m.error = TimedOutMessage /\ ~http[r].timerLive /\ hist[r].entry = "searchByURL"
        \/ outcome[r].kind = "error" /\ m.error = outcome[r].cause /\ ~http[r].awaiting

\* C19: a POST /api/search request is never answered twice and its answer is
\* never changed; it is unanswered only while its race is open, and then its
\* 120 s timer is still running, so the answer comes when the timer fires at
\* the latest; the answer is {results, summary} with the value searchByURL
\* resolved with, or {error, troubleshooting} with "URL is required" for a
\* request whose search never started, with the timeout message once the
\* timer has fired, or with the message searchByURL rejected with; a search
\* that resolved while the timer was still running was answered with its
\* results.
ExactlyOneResponse ==
  /\ [](\A r \in Calls :
          /\ Len(http[r].sent) <= 1
          /\ http[r].pc = "idle" => http[r].sent = <<>> /\ ~http[r].timerLive
          /\ http[r].pc = "racing" =>
               /\ http[r].sent = <<>>
               /\ http[r].timerLive
               /\ http[r].timer \in 0..SearchTimeout
               /\ http[r].awaiting
          /\ http[r].pc = "done" => Len(http[r].sent) = 1
          /\ http[r].sent # <<>> => ResponseFits(r, http[r].sent[1])
          /\ (outcome[r].kind = "value" /\ ~http[r].awaiting /\ http[r].timerLive) =>
               http[r].sent[1].kind = "results")
  /\ [][\A r \in Calls : http[r].sent # <<>> => http'[r].sent = http[r].sent]_vars

\* C19 witness: the timer answered a request, and the search it had started
\* settled afterwards
SearchSettledAfterTimeout ==
  \E r \in Calls :
    /\ Len(http[r].sent) = 1
    /\ http[r].sent[1].error = TimedOutMessage
    /\ pc[r] = "done"
    /\ outcome[r].kind = "error"
    /\ ~http[r].awaiting

\* the browser call c launched has not been closed
SessionOpen(c) == browser[c].closed < browser[c].launched

\* C15 (as claimed): at any time at most one call on the engine holds an open
\* browser session.
AtMostOneSessionOpen == Cardinality({c \in Calls : SessionOpen(c)}) <= 1

\* C21: a step in which waitForSearchResults returns normally before maxWait
\* has elapsed is the end of a stabilization window: the window began 3 s
\* earlier at a growth check, the count read now equals the count read when
\* it began, and that count is at least 1.
StabilizationNeverEarly ==
  [][( /\ frame[1].entry = "waitForSearchResults"
       /\ pc[1] \in WaitPcs
       /\ pc'[1] = "done"
       /\ outcome'[1].kind = "value"
       /\ trace.clock - trace.waitStart < trace.maxWait ) =>
         /\ pc[1] = "w_stab"
         /\ hist'[1].waitExit = "stabilized"
         /\ trace.clock = trace.windowStart + StabilizationWait
         /\ Len(interceptedData) = trace.windowCount
         /\ trace.windowCount = frame[1].lastDataCount
         /\ trace.windowCount >= 1]_vars

\* C21 witness: the count grew during a first window, and the detector
\* returned at the end of a second, quiet one, before maxWait
ReturnedAfterSecondWindow ==
  /\ frame[1].entry = "waitForSearchResults"
  /\ pc[1] = "done"
  /\ outcome[1].kind = "value"
  /\ hist[1].waitExit = "stabilized"
  /\ hist[1].lenAtExit = 2
  /\ trace.windowCount = 2
  /\ trace.waitEnd - trace.waitStart < trace.maxWait
  /\ trace.waitEnd = trace.windowStart + StabilizationWait

\* C22 (as claimed): whenever navigateWithRetry starts attempt k, each of the
\* k - 1 failed attempts before it, thrown load or bad title alike, was
\* followed by a backoff wait, the i-th of 2 s * i.
BackoffAfterEveryFailedAttempt ==
  (frame[1].entry = "navigateWithRetry" /\ pc[1] = "nav_goto") =>
    /\ Len(trace.backoffs) = frame[1].attempt - 1
    /\ \A i \in 1..Len(trace.backoffs) : trace.backoffs[i] = BackoffUnit * i

\* the captures made from the response with arrival rank id
CapturesOf(id) == {i \in 1..Len(interceptedData) : interceptedData[i].id = id}

\* C23: every capture in the list was made from a response the page
\* delivered with a qualifying URL and status 200, whose body was read as
\* non-empty text that parsed, and has that body's size (> 0); a response
\* that does not qualify or has another status, and a body that is empty,
\* blank, unparseable or unreadable, left no capture; a body that parsed
\* left exactly one.
CapturesComeFromGoodResponses ==
  /\ \A i \in 1..Len(interceptedData) :
       LET item == interceptedData[i]
       IN /\ isFetchFlightsAPI(item.url)
          /\ item.status = OkStatus
          /\ item.size > 0
          /\ \E j \in 1..Len(trace.responses) :
               trace.responses[j] = [id |-> item.id, url |-> item.url, status |-> item.status]
          /\ \E k \in 1..Len(trace.reads) :
               trace.reads[k] = [id |-> item.id, body |-> JsonBody(item.size)]
  /\ \A j \in 1..Len(trace.responses) :
       (~isFetchFlightsAPI(trace.responses[j].url) \/ trace.responses[j].status # OkStatus) =>
         CapturesOf(trace.responses[j].id) = {}
  /\ \A k \in 1..Len(trace.reads) :
       Cardinality(CapturesOf(trace.reads[k].id)) =
         IF trace.reads[k].body.kind = "json" THEN 1 ELSE 0

\* C23 witness: of two qualifying responses the one with status 200 and a
\* JSON body was captured, the one with status 404 was not
OnlyTheOkResponseCaptured ==
  /\ trace.log
  /\ Len(trace.responses) = 2
  /\ trace.responses[1] = [id |-> 1, url |-> FetchFlightsUrl, status |-> 404]
  /\ trace.responses[2].url = FlightApiUrl
  /\ Len(interceptedData) = 1
  /\ interceptedData[1].id = 2

\* C24: every request the page paused has been continued exactly once and
\* never aborted; a request whose URL contains "/api/" goes out with its own
\* headers and, put over them, the six added ones; any other request goes out
\* with its own headers and nothing else.
EveryRequestContinuedOnce ==
  \A i \in 1..Len(requests) :
    LET q == requests[i]
    IN /\ q.continues = 1
       /\ q.aborts = 0
       /\ IF Includes(q.url, <<"/api/">>)
          THEN /\ DOMAIN q.sent = DOMAIN q.headers \cup DOMAIN AddedHeaders
               /\ \A n \in DOMAIN AddedHeaders : q.sent[n] = AddedHeaders[n]
               /\ \A n \in DOMAIN q.headers \ DOMAIN AddedHeaders : q.sent[n] = q.headers[n]
          ELSE q.sent = q.headers

\* C24 witness: an asset request went out as it was, and an API request that
\* had an "accept" header of its own went out with the added "Accept" too
AssetAndApiRequestContinued ==
  /\ Len(requests) = 2
  /\ requests[1].url = AssetUrl
  /\ requests[1].sent = requests[1].headers
  /\ requests[2].url = FetchFlightsUrl
  /\ "accept" \in DOMAIN requests[2].headers
  /\ requests[2].sent["Accept"] = AddedHeaders["Accept"]
  /\ requests[2].sent["accept"] = requests[2].headers["accept"]
  /\ requests[2].continues = 1

\* C25: a step in which a request of the page fails appends exactly one
\* record, with the request's URL, to the failure list when the URL contains
\* "/api/" or "FetchFlights", and leaves the failure list alone otherwise; it
\* never changes the capture list; and at any time every failed request with
\* a URL that qualifies for capture has its record in the failure list.
FailureRecordedOnApiPath ==
  /\ [][Len(trace'.failed) > Len(trace.failed) =>
         LET url == trace'.failed[Len(trace'.failed)].url
             old == Summary.failedRequests
             new == Summary'.failedRequests
         IN /\ UNCHANGED interceptedData
            /\ IF Includes(url, <<"/api/">>) \/ Includes(url, <<"FetchFlights">>)
               THEN /\ Len(new) = Len(old) + 1
                    /\ SubSeq(new, 1, Len(old)) = old
                    /\ new[Len(new)].url = url
               ELSE new = old]_vars
  /\ [](\A k \in 1..Len(trace.failed) :
          isFetchFlightsAPI(trace.failed[k].url) =>
            \E i \in 1..Len(Summary.failedRequests) :
              Summary.failedRequests[i].url = trace.failed[k].url)

\* C25 witness: an asset request and an "/api/" request that does not
\* qualify for capture both failed, the second with no failure text; the
\* failure list has the second only
OnlyApiFailureRecorded ==
  /\ Len(trace.failed) = 2
  /\ trace.failed[1].url = AssetUrl
  /\ trace.failed[2].url = OtherApiUrl
  /\ Summary.failedRequestCount = 1
  /\ Summary.failedRequests[1].url = OtherApiUrl
  /\ Summary.failedRequests[1].error = <<"Unknown error">>

\* C26 (as claimed): every qualifying response that arrived with a status
\* outside 200..299 has a record in the failure list, and so is counted in
\* getSummary().failedRequestCount.
NonOkResponseRecordedAsFailure ==
  \A j \in 1..Len(trace.responses) :
    ( /\ isFetchFlightsAPI(trace.responses[j].url)
      /\ trace.responses[j].status \notin 200..299 ) =>
        /\ Summary.failedRequestCount >= 1
        /\ \E i \in 1..Len(Summary.failedRequests) :
             Summary.failedRequests[i].url = trace.responses[j].url

\* C27 (as claimed): the retrigger check has run once for every 10th tick of
\* the detector, and the search control was clicked once at every check at
\* which it was on the page, with or without an error element there.
ControlClickedWheneverPresent ==
  /\ trace.clicks = trace.buttons
  /\ (pc[1] \in {"w_tick", "w_retrig_wait"} /\ frame[1].entry = "waitForSearchResults") =>
       trace.checks = frame[1].checkCount \div RetriggerEvery

\* the steps of the form driver that ended as `res`
StepsWith(c, res) == {k \in 1..Len(browser[c].ui) : browser[c].ui[k].result = res}

FillReturned(c) == frame[c].entry = "fillSearchFormManually" /\ pc[c] = "done"

\* C28 (as claimed): when the page operations of one of the four fields
\* failed, fillSearchFormManually has still returned normally.
AnyFieldErrorSwallowed ==
  (FillReturned(1) /\ \A k \in StepsWith(1, "throws") : browser[1].ui[k].step # "form") =>
    outcome[1].kind = "value"

\* C28, amended: fillSearchFormManually returns normally exactly when the
\* wait for the form and the origin and destination blocks succeeded; a
\* failure in a date block stops nothing: every date the parameters have was
\* attempted; a failure in the form wait, the origin or the destination block
\* is rethrown, and it was the last step made.
DateFieldErrorsSwallowed ==
  FillReturned(1) =>
    LET ui == browser[1].ui
        fatal == {k \in StepsWith(1, "throws") : ui[k].step \notin {"departDate", "returnDate"}}
    IN /\ outcome[1].kind = "value" <=> fatal = {}
       /\ outcome[1].kind \in {"value", "error"}
       /\ fatal # {} =>
            /\ fatal = {Len(ui)}
            /\ outcome[1].cause = ui[Len(ui)].step
       /\ fatal = {} =>
            /\ frame[1].arg.departDate <=> \E k \in 1..Len(ui) : ui[k].step = "departDate"
            /\ frame[1].arg.returnDate <=> \E k \in 1..Len(ui) : ui[k].step = "returnDate"
            /\ \A k \in 1..3 : ui[k] = [step |-> FormSteps[k], result |-> "ok"]

\* C28 witness: the departure date could not be filled, the return date was
\* filled after it, and the call returned normally
ReturnDateFilledAfterDepartFailed ==
  /\ FillReturned(1)
  /\ outcome[1].kind = "value"
  /\ Len(browser[1].ui) = 5
  /\ browser[1].ui[4] = [step |-> "departDate", result |-> "throws"]
  /\ browser[1].ui[5] = [step |-> "returnDate", result |-> "ok"]

\* C29: in a call of submitSearchManually the k-th candidate tried is the
\* k-th selector of the list; a candidate that was clicked is the last one
\* tried, so at most one control is clicked; a candidate that is absent, or
\* whose lookup or click threw, is followed by the next one while one is
\* left; the Enter key comes only after all candidates were tried in vain,
\* and once the candidates are done it was pressed, or its press threw,
\* exactly when no candidate was clicked.
FirstClickedCandidateSubmits ==
  frame[1].entry = "submitSearchManually" =>
    LET ui == browser[1].ui
        tried == {k \in 1..Len(ui) : ui[k].step # "Enter"}
        enters == {k \in 1..Len(ui) : ui[k].step = "Enter"}
    IN /\ \A k \in tried : k <= Len(SearchSelectors) /\ ui[k].step = SearchSelectors[k]
       /\ Cardinality(StepsWith(1, "clicked")) <= 1
       /\ \A k \in StepsWith(1, "clicked") : k = Len(ui)
       /\ \A k \in tried :
            (ui[k].result # "clicked" /\ k < Len(SearchSelectors)) =>
              \/ k + 1 \in tried
              \/ pc[1] = "submit" /\ frame[1].selector = k + 1
       /\ Cardinality(enters) <= 1
       /\ \A k \in enters :
            /\ k = Len(SearchSelectors) + 1
            /\ StepsWith(1, "clicked") = {}
       /\ pc[1] \in {"s_wait", "done"} => (enters # {} <=> StepsWith(1, "clicked") = {})

\* C29 witness: the lookup of the first candidate threw, the click of the
\* second threw, the third was clicked, and the call returned without Enter
ThirdCandidateClicked ==
  /\ frame[1].entry = "submitSearchManually"
  /\ pc[1] = "done"
  /\ outcome[1].kind = "value"
  /\ Len(browser[1].ui) = 3
  /\ browser[1].ui[1].result = "lookupThrows"
  /\ browser[1].ui[2].result = "clickThrows"
  /\ browser[1].ui[3] = [step |-> SearchSelectors[3], result |-> "clicked"]

\* what the loop makes of a list of trip entries, whatever payload carried it
FlightsOfList(list) == ExtractFrom(list, 1, <<>>).flights

ExtractReturned == pc[1] = "done" /\ frame[1].entry = "extractFlightInfo"

\* C30: the same list of trip entries gives the same flights (length, order
\* and per-trip fields) whether the payload carries it as its top-level Trips
\* field, as data.Trips or as the bare array; and a payload that carries more
\* than one list is read from its top-level Trips when that is an array, and
\* otherwise from data.Trips before the payload itself.
NormalizerToleratesThreeShapes ==
  ExtractReturned =>
    /\ \A list \in TripLists :
         frame[1].arg \in {TopLevelPayload(list), NestedPayload(list), BarePayload(list)} =>
           outcome[1].flights = FlightsOfList(list)
    /\ (frame[1].arg.type = "object" /\ IsArray(frame[1].arg.Trips)) =>
         outcome[1].flights = FlightsOfList(frame[1].arg.Trips.items)
    /\ (frame[1].arg.type = "object" /\ ~IsArray(frame[1].arg.Trips)
          /\ IsArray(frame[1].arg.data.Trips)) =>
         outcome[1].flights = FlightsOfList(frame[1].arg.data.Trips.items)

\* C30 witness: a list of a null entry and a trip with an Index, carried under
\* data.Trips, gave the one flight the bare list gives
NestedListExtracted ==
  /\ ExtractReturned
  /\ \E list \in TripLists :
       /\ Len(list) = 2 /\ list[1].null /\ list[2].Index = 2
       /\ frame[1].arg = NestedPayload(list)
       /\ Len(outcome[1].flights) = 1
       /\ outcome[1].flights[1].tripIndex = 2
       /\ outcome[1].flights = extractFlightInfo(BarePayload(list)).flights

\* the entries of a list the loop does not skip, in order
RECURSIVE NonNull(_)
NonNull(list) ==
  IF list = <<>> THEN <<>>
  ELSE IF list[1].null THEN NonNull(Tail(list))
  ELSE <<list[1]>> \o NonNull(Tail(list))

\* a list value is absent or a list
ListOrAbsent(v) == ~Truthy(v) \/ IsArray(v)

\* every substructure the entry has is of the shape United sends; any of them
\* may be missing
SubstructuresSound(trip) ==
  /\ ListOrAbsent(trip.ColumnInformation.Columns)
  /\ ListOrAbsent(trip.SearchFiltersOut.AirportsDestinationList)
  /\ ListOrAbsent(trip.SearchFiltersOut.EquipmentList)

\* C31: when every entry of the trip list is null or has only sound
\* substructures, the result has no error marker and one flight per non-null
\* entry, in order; a flight has fares = [] where the entry has no fare
\* columns, pricing = [] and aircraft = [] where it has no such list, and
\* searchFilters = {} where it has no SearchFiltersOut.
MissingSubstructuresGiveDefaults ==
  (/\ ExtractReturned
   /\ frame[1].arg.type \in {"object", "array"}
   /\ IsArray(trips(frame[1].arg))
   /\ \A i \in DOMAIN trips(frame[1].arg).items :
        SubstructuresSound(trips(frame[1].arg).items[i])) =>
    LET entries == NonNull(trips(frame[1].arg).items) IN
      /\ outcome[1].cause = ""
      /\ Len(outcome[1].flights) = Len(entries)
      /\ \A i \in DOMAIN entries :
           LET trip == entries[i]
               flight == outcome[1].flights[i] IN
             /\ flight.tripIndex \in {trip.TripIndex, trip.Index}
             /\ (~trip.ColumnInformation.present \/ ~Truthy(trip.ColumnInformation.Columns))
                  => flight.fares = <<>>
             /\ (~trip.SearchFiltersOut.present
                   \/ ~Truthy(trip.SearchFiltersOut.AirportsDestinationList))
                  => flight.pricing = <<>>
             /\ (~trip.SearchFiltersOut.present
                   \/ ~Truthy(trip.SearchFiltersOut.EquipmentList))
                  => flight.aircraft = <<>>
             /\ ~trip.SearchFiltersOut.present => ~flight.searchFilters.set

\* C31 witness: a payload of a null entry and a trip with no substructure at
\* all gave one flight with every part empty and no error marker
BareTripGaveEmptyParts ==
  /\ ExtractReturned
  /\ frame[1].arg.type = "object"
  /\ IsArray(frame[1].arg.Trips)
  /\ Len(frame[1].arg.Trips.items) = 2
  /\ frame[1].arg.Trips.items[1].null
  /\ frame[1].arg.Trips.items[2] = TripEntry(FALSE, 0, 2, NoColumnInformation, NoSearchFiltersOut)
  /\ outcome[1].cause = ""
  /\ Len(outcome[1].flights) = 1
  /\ outcome[1].flights[1].fares = <<>>
  /\ outcome[1].flights[1].pricing = <<>>
  /\ outcome[1].flights[1].aircraft = <<>>
  /\ ~outcome[1].flights[1].searchFilters.set

\* the payload is not an object, or what it carries as its trips is not a
\* list, or an entry of its trip list has a substructure that is not a list
Malformed(data) ==
  \/ data.type \notin {"object", "array"}
  \/ ~IsArray(trips(data))
  \/ \E i \in DOMAIN trips(data).items : ~SubstructuresSound(trips(data).items[i])

\* C32: extractFlightInfo returns, for a payload that is not an object and
\* for a malformed payload, an empty flight list and an error marker.
MalformedPayloadGivesNoFlights ==
  (ExtractReturned /\ Malformed(frame[1].arg)) =>
    /\ outcome[1].cause # ""
    /\ outcome[1].flights = <<>>

\* call q is inside a search that has not yet handed over its result
InFlight(q) == InSearch(frame[q]) /\ pc[q] \notin QuietPcs

\* the step is the arrival of request r with a url: the handler has cleared
\* the capture list and started its search
Arrives(r) == http[r].pc = "idle" /\ http'[r].pc = "racing"

\* the step appends a capture read by the page of call c
CapturedBy(c) ==
  /\ Len(interceptedData') = Len(interceptedData) + 1
  /\ \E r \in pending : r \notin pending' /\ r.call = c

\* C33 (as claimed): searches on one engine do not interleave: the clearData
\* of an arriving request removes no capture while another search is in
\* flight, and a page's capture joins the list only while no other search is
\* in flight to see it.
SearchesDoNotInterleave ==
  [][ /\ \A r \in Calls :
           (Arrives(r) /\ \E q \in Calls \ {r} : InFlight(q)) =>
             IsPrefix(interceptedData, interceptedData')
      /\ \A c \in Calls :
           CapturedBy(c) => \A q \in Calls \ {c} : ~InFlight(q) ]_vars

\* the captures an earlier search left in the list
Carried(list) == SelectSeq(list, LAMBDA item : item.id = CarriedId)

\* the step is the first growth check of a detector within its budget
FirstCheck(c) ==
  /\ pc[c] = "w_loop"
  /\ frame[c].entry = "searchByURL"
  /\ frame[c].checkCount = 0
  /\ WithinBudget(frame[c])
  /\ pc'[c] # "w_loop"

\* C34: in a search started on a list that holds earlier captures, with no
\* clearData, the earlier captures stay at the head of the list; the
\* detector's first growth check counts them and opens a stabilization
\* window, which ends the detector when nothing was captured in it (unless
\* the wait itself rejects); and the
\* result counts them and selects the earlier capture whenever no capture of
\* the new search is larger.
CarriedCapturesJoinTheNewSearch ==
  /\ [](/\ Len(Carried(interceptedData)) = 1
        /\ interceptedData[1].id = CarriedId
        /\ (pc[1] = "done" /\ hist[1].entry = "searchByURL" /\ outcome[1].kind = "value") =>
             /\ outcome[1].meta.interceptedResponses = hist[1].lenAtExit
             /\ hist[1].lenAtExit >= 1
             /\ (\A i \in 2..hist[1].lenAtExit :
                   interceptedData[i].size <= interceptedData[1].size)
                  => outcome[1].meta.responseId = CarriedId)
  /\ [][ /\ FirstCheck(1) =>
              /\ pc'[1] = "w_stab"
              /\ frame'[1].lastDataCount = Len(interceptedData)
              /\ frame'[1].timer = StabilizationWait
         /\ ( /\ pc[1] = "w_stab"
              /\ frame[1].entry = "searchByURL"
              /\ pc'[1] # "w_stab"
              /\ Len(interceptedData) = frame[1].lastDataCount
              /\ hist'[1].waitExit # "pageError" ) =>
              /\ pc'[1] = "closing"
              /\ hist'[1].waitExit = "stabilized"
              /\ frame'[1].result = parseInterceptedData(interceptedData) ]_vars

\* C34 witness: a search during which no response arrived returned after
\* its stabilization window with the earlier capture as its result
SearchReturnedEarlierCapture ==
  /\ pc[1] = "done"
  /\ hist[1].entry = "searchByURL"
  /\ hist[1].waitExit = "stabilized"
  /\ nextId = 1
  /\ outcome[1].kind = "value"
  /\ outcome[1].meta.interceptedResponses = 1
  /\ outcome[1].meta.responseId = CarriedId

\* C35: every browser session a search launched is closed in the end, when
\* every awaited operation settles; also the session of a search whose
\* request was answered by the 120 s timer.
EverySessionEventuallyClosed ==
  \A c \in Calls : SessionOpen(c) ~> ~SessionOpen(c)

\* C35 witness: a request was answered with the time-out error and the
\* search it had started went on to close the browser it had launched
AbandonedSearchClosedItsBrowser ==
  \E r \in Calls :
    /\ http[r].sent = <<ErrorResponse(TimedOutMessage)>>
    /\ browser[r].launched = 1
    /\ browser[r].closed = 1
    /\ pc[r] = "done"

FailuresOfLatestSearch == failedLists[1]

\* C37 (as claimed): what getSummary and getTroubleshootingInfo report after
\* a search are the failures of that search only: its failure list started
\* empty, whatever list the earlier search left and without clearData.
ReportsOnlyLatestFailures ==
  (pc[1] = "done" /\ hist[1].entry = "searchByURL" /\ report.kind # "none") =>
    /\ report.summary.failedRequests = FailuresOfLatestSearch
    /\ report.summary.failedRequestCount = Len(FailuresOfLatestSearch)

====
